---- MODULE Spec2Model ----
(***************************************************************************)
(* Model of ai-streaming-module.js: the stream reducer                     *)
(* AIProvider._streamNDJSON, the two _parseStreamLine variants, the        *)
(* payload builders and the generateResponse / streamResponse operations   *)
(* of OpenAIProvider and SelfHostedProvider.                               *)
(*                                                                         *)
(* Text is a sequence of symbols.  "NL" is the newline, "SP" a space;      *)
(* "L" and "T" are the lead and the continuation byte of one two-byte      *)
(* UTF-8 character, decoded to "EA"; "FFFD" is the replacement character.  *)
(* Every other symbol stands for a fixed run of ASCII bytes:               *)
(*   D  {"done":true}                                                      *)
(*   C  {"message":{"content":"                                            *)
(*   K  {"message":{"content":"x","thinking":"y"}}                         *)
(*   E  "}}                                                                *)
(*   F  "},"done":true}                                                    *)
(*   P  data:                                                              *)
(*   X  [DONE]                                                             *)
(*   G  {"choices":[{"delta":{"content":"                                  *)
(*   H  "}}]}                                                              *)
(* Lines handed to the parsers alone may also hold                         *)
(*   DF {"done":false}                                                     *)
(*   DS {"done":"true"}                                                    *)
(*   D1 {"done":1}                                                         *)
(*   MD {"message":{"done":true}}                                          *)
(*   N  null                                                               *)
(***************************************************************************)
EXTENDS Integers, Sequences, FiniteSets, TLC

\* Bounds of the model.
MaxBytes == 4

Providers == {"openai", "selfhosted"}

CommonBytes == {"NL", "SP", "L", "T"}

\* The bytes a backend of each kind may put on the wire.
BytesOf(p) ==
  IF p = "openai" THEN CommonBytes \cup {"P", "X", "G", "H"}
  ELSE CommonBytes \cup {"D", "C", "K", "E", "F"}

\* Characters that may stand inside a JSON string literal.
StringChars == {"SP", "EA", "FFFD"}

RECURSIVE SeqsUpTo(_, _)
SeqsUpTo(S, n) ==
  IF n = 0 THEN {<<>>}
  ELSE LET shorter == SeqsUpTo(S, n - 1)
       IN  shorter \cup {Append(s, x) : s \in {t \in shorter : Len(t) = n - 1}, x \in S}

NoIncrement == [isDone |-> FALSE, hasContent |-> FALSE, content |-> <<>>,
                hasThinking |-> FALSE, thinking |-> <<>>]

DoneIncrement == [NoIncrement EXCEPT !.isDone = TRUE]

\* new TextDecoder(); decoder.decode(chunk, {stream: true}): `pending` is the
\* decoder's carry-over of an incomplete multi-byte character.
RECURSIVE decode(_, _, _)
decode(pending, chunk, out) ==
  IF chunk = <<>> THEN [text |-> out, pending |-> pending]
  ELSE LET b == Head(chunk)
           rest == Tail(chunk)
       IN  IF b = "L"
           THEN decode(TRUE, rest, IF pending THEN Append(out, "FFFD") ELSE out)
           ELSE IF b = "T"
           THEN decode(FALSE, rest, Append(out, IF pending THEN "EA" ELSE "FFFD"))
           ELSE decode(FALSE, rest,
                       IF pending THEN out \o <<"FFFD", b>> ELSE Append(out, b))

\* String.prototype.split('\n'): always at least one segment.
RECURSIVE split(_, _, _)
split(text, cur, acc) ==
  IF text = <<>> THEN Append(acc, cur)
  ELSE IF Head(text) = "NL" THEN split(Tail(text), <<>>, Append(acc, cur))
  ELSE split(Tail(text), Append(cur, Head(text)), acc)

\* String.prototype.trim()
RECURSIVE trimStart(_)
trimStart(s) ==
  IF s # <<>> /\ Head(s) \in {"SP", "NL"} THEN trimStart(Tail(s)) ELSE s

RECURSIVE trimEnd(_)
trimEnd(s) ==
  IF s # <<>> /\ s[Len(s)] \in {"SP", "NL"} THEN trimEnd(SubSeq(s, 1, Len(s) - 1)) ELSE s

trim(s) == trimEnd(trimStart(s))

IsStringBody(s) == \A i \in 1..Len(s) : s[i] \in StringChars

startsWith(s, prefix) ==
  Len(s) >= Len(prefix) /\ SubSeq(s, 1, Len(prefix)) = prefix

\* JSON.parse on the text of a line: ok (no SyntaxError), isNull (the
\* document is null), the value of the top-level done field ("absent",
\* "true", "false", "string" for "true" in quotes, "number" for 1), the
\* message object and choices[0].delta.  Leading and trailing JSON
\* whitespace is allowed; anything that is not one of the documents below is
\* a SyntaxError.
JSONparse(str) ==
  LET s == trim(str)
      n == Len(s)
      bad == [ok |-> FALSE, isNull |-> FALSE, done |-> "absent", message |-> NoIncrement,
              delta |-> NoIncrement]
      inner == IF n >= 2 THEN SubSeq(s, 2, n - 1) ELSE <<>>
      good == [bad EXCEPT !.ok = TRUE]
  IN  IF s = <<"D">> THEN [good EXCEPT !.done = "true"]
      ELSE IF s = <<"DF">> THEN [good EXCEPT !.done = "false"]
      ELSE IF s = <<"DS">> THEN [good EXCEPT !.done = "string"]
      ELSE IF s = <<"D1">> THEN [good EXCEPT !.done = "number"]
      ELSE IF s = <<"MD">> THEN good
      ELSE IF s = <<"N">> THEN [good EXCEPT !.isNull = TRUE]
      ELSE IF s = <<"K">>
      THEN [good EXCEPT !.message = [NoIncrement EXCEPT !.hasContent = TRUE,
                                                        !.content = <<"x">>,
                                                        !.hasThinking = TRUE,
                                                        !.thinking = <<"y">>]]
      ELSE IF n < 2 \/ ~IsStringBody(inner) THEN bad
      ELSE IF s[1] = "C" /\ s[n] \in {"E", "F"}
      THEN [good EXCEPT !.done = IF s[n] = "F" THEN "true" ELSE "absent",
                        !.message = [NoIncrement EXCEPT !.hasContent = TRUE,
                                                        !.content = inner]]
      ELSE IF s[1] = "G" /\ s[n] = "H"
      THEN [good EXCEPT !.delta = [NoIncrement EXCEPT !.hasContent = TRUE,
                                                      !.content = inner]]
      ELSE bad

\* A parser that takes a line without the prefix for its JSON text.
OpenAI_parseStreamLine_noPrefixCheck(line) ==
  IF line = <<"P", "SP", "X">> THEN DoneIncrement
  ELSE LET obj == JSONparse(IF startsWith(line, <<"P", "SP">>)
                            THEN SubSeq(line, 3, Len(line)) ELSE line)
       IN  IF obj.ok /\ ~obj.isNull
           THEN [NoIncrement EXCEPT !.hasContent = obj.delta.hasContent,
                                    !.content = obj.delta.content]
           ELSE NoIncrement

\* OpenAIProvider._parseStreamLine; reading obj.choices of null raises inside
\* the try block.
OpenAI_parseStreamLine(line) ==
  IF line = <<"P", "SP", "X">> THEN DoneIncrement
  ELSE IF ~startsWith(line, <<"P", "SP">>) THEN NoIncrement
  ELSE LET obj == JSONparse(SubSeq(line, 3, Len(line)))
       IN  IF obj.ok /\ ~obj.isNull
           THEN [NoIncrement EXCEPT !.hasContent = obj.delta.hasContent,
                                    !.content = obj.delta.content]
           ELSE NoIncrement

\* A parser whose catch block reports the end of the stream.
SelfHosted_parseStreamLine_endsOnError(line) ==
  LET obj == JSONparse(line)
  IN  IF ~obj.ok \/ obj.isNull \/ obj.done = "true" THEN DoneIncrement
      ELSE [NoIncrement EXCEPT !.hasContent = obj.message.hasContent,
                               !.content = obj.message.content,
                               !.hasThinking = obj.message.hasThinking,
                               !.thinking = obj.message.thinking]

\* A parser that tests `if (obj.done)`.
SelfHosted_parseStreamLine_truthyDone(line) ==
  LET obj == JSONparse(line)
  IN  IF ~obj.ok \/ obj.isNull THEN NoIncrement
      ELSE IF obj.done \in {"true", "string", "number"} THEN DoneIncrement
      ELSE [NoIncrement EXCEPT !.hasContent = obj.message.hasContent,
                               !.content = obj.message.content,
                               !.hasThinking = obj.message.hasThinking,
                               !.thinking = obj.message.thinking]

\* SelfHostedProvider._parseStreamLine; reading obj.done of null raises inside
\* the try block.
SelfHosted_parseStreamLine(line) ==
  LET obj == JSONparse(line)
  IN  IF ~obj.ok \/ obj.isNull THEN NoIncrement
      ELSE IF obj.done = "true" THEN DoneIncrement
      ELSE [NoIncrement EXCEPT !.hasContent = obj.message.hasContent,
                               !.content = obj.message.content,
                               !.hasThinking = obj.message.hasThinking,
                               !.thinking = obj.message.thinking]

\* this._parseStreamLine(line): dispatch on the provider class.
parseStreamLine(p, line) ==
  IF p = "openai" THEN OpenAI_parseStreamLine(line) ELSE SelfHosted_parseStreamLine(line)

Call(cb, arg) == [cb |-> cb, arg |-> arg]

\* if (typeof result.content === 'string') onContent(result.content);
\* if (typeof result.thinking === 'string') onThinking(result.thinking);
deliver(calls, result) ==
  LET c1 == IF result.hasContent THEN Append(calls, Call("onContent", result.content))
            ELSE calls
  IN  IF result.hasThinking THEN Append(c1, Call("onThinking", result.thinking)) ELSE c1

\* The inner loop without the `return` after onDone().
RECURSIVE forLines_noReturn(_, _, _)
forLines_noReturn(p, lines, calls) ==
  IF lines = <<>> THEN [calls |-> calls, returned |-> FALSE]
  ELSE LET line == trim(Head(lines))
           result == parseStreamLine(p, line)
       IN  IF line = <<>> THEN forLines_noReturn(p, Tail(lines), calls)
           ELSE IF result.isDone
           THEN [calls |-> forLines_noReturn(p, Tail(lines),
                                             Append(calls, Call("onDone", <<>>))).calls,
                 returned |-> TRUE]
           ELSE forLines_noReturn(p, Tail(lines), deliver(calls, result))

\* The inner loop `for (const raw of lines)`: [calls, returned].
RECURSIVE forLines(_, _, _)
forLines(p, lines, calls) ==
  IF lines = <<>> THEN [calls |-> calls, returned |-> FALSE]
  ELSE LET line == trim(Head(lines))
       IN  IF line = <<>> THEN forLines(p, Tail(lines), calls)
           ELSE LET result == parseStreamLine(p, line)
                IN  IF result.isDone
                    THEN [calls |-> Append(calls, Call("onDone", <<>>)), returned |-> TRUE]
                    ELSE forLines(p, Tail(lines), deliver(calls, result))

\* The iteration with `leftover` not prepended to the decoded text.
onChunk_lostLeftover(p, st, chunk) ==
  LET dec == decode(st.pending, chunk, <<>>)
      lines == split(dec.text, <<>>, <<>>)
      n == Len(lines)
      body == forLines(p, SubSeq(lines, 1, n - 1), st.calls)
  IN  [pending |-> dec.pending, leftover |-> lines[n],
       calls |-> body.calls, returned |-> body.returned]

\* The iteration with decoder.decode(chunk) lacking {stream: true}: a
\* character cut by the end of the chunk is replaced, nothing is carried over.
onChunk_noStream(p, st, chunk) ==
  LET dec == decode(FALSE, chunk, <<>>)
      text == IF dec.pending THEN Append(dec.text, "FFFD") ELSE dec.text
      lines == split(st.leftover \o text, <<>>, <<>>)
      n == Len(lines)
      body == forLines(p, SubSeq(lines, 1, n - 1), st.calls)
  IN  [pending |-> FALSE, leftover |-> lines[n],
       calls |-> body.calls, returned |-> body.returned]

\* One iteration of `for await (const chunk of resp.body)`.
onChunk(p, st, chunk) ==
  LET dec == decode(st.pending, chunk, <<>>)
      lines == split(st.leftover \o dec.text, <<>>, <<>>)
      n == Len(lines)
      body == forLines(p, SubSeq(lines, 1, n - 1), st.calls)
  IN  [pending |-> dec.pending, leftover |-> lines[n],
       calls |-> body.calls, returned |-> body.returned]

\* The end of the body without the flush of the leftover.
onEnd_noFlush(p, st) ==
  [st EXCEPT !.calls = Append(st.calls, Call("onDone", <<>>)), !.returned = TRUE]

\* An end of the body that returns without onDone().
onEnd_noDone(p, st) ==
  LET line == trim(st.leftover)
      result == parseStreamLine(p, line)
      c1 == IF line # <<>> /\ ~result.isDone THEN deliver(st.calls, result) ELSE st.calls
  IN  [st EXCEPT !.calls = c1, !.returned = TRUE]

\* After the loop: flush of the leftover, then onDone().
onEnd(p, st) ==
  LET line == trim(st.leftover)
      result == parseStreamLine(p, line)
      c1 == IF line # <<>> /\ ~result.isDone THEN deliver(st.calls, result) ELSE st.calls
  IN  [st EXCEPT !.calls = Append(c1, Call("onDone", <<>>)), !.returned = TRUE]

\* The catch block without its onDone().
onError_noDone(st) == [st EXCEPT !.returned = TRUE]

\* catch (error) { logger.error(...); onDone(); }
onError(st) ==
  [st EXCEPT !.calls = Append(st.calls, Call("onDone", <<>>)), !.returned = TRUE]

\* A reducer whose `leftover` is a field of the provider instance, last
\* written by the other call on that instance.
localsOf_instanceField(own, foreign) == [own EXCEPT !.leftover = foreign.leftover]

\* `const decoder = new TextDecoder(); let leftover = '';`: the decoder and
\* the leftover are locals of the call, whatever another call holds.
localsOf(own, foreign) == own

\* The onContent or onThinking invocation number `at` falls into the step
\* from st0 to st1 (no onDone precedes an increment in the callbacks of a call).
raisedIn(st0, st1, at) ==
  /\ at > Len(st0.calls)
  /\ at <= Len(st1.calls)
  /\ st1.calls[at].cb # "onDone"

\* A catch block that logs the error of a callback and goes on.
catchRaise_goOn(st0, st1, at) == st1

\* An invocation of onContent or onThinking that raises leaves the try block
\* at that invocation: catch (error) { logger.error(...); onDone(); }.
catchRaise(st0, st1, at) ==
  IF raisedIn(st0, st1, at)
  THEN [st1 EXCEPT !.calls = Append(SubSeq(st1.calls, 1, at), Call("onDone", <<>>)),
                   !.returned = TRUE]
  ELSE st1

\* What may go wrong at the onDone of the caller: nothing; the callback raises
\* at its first invocation only, or at every one; or the logger.debug that
\* follows it in the try block raises.
DoneFaults == {"never", "once", "always", "debug"}

\* The step that left the reducer as st invoked onDone inside the try block,
\* and that invocation or the logging after it raised.
caughtAfterDone(st, inCatch, done) == st.returned /\ ~inCatch /\ done # "never"

\* The onDone() of the catch block raised: _streamNDJSON throws.
thrownByDone(st, inCatch, done) ==
  /\ st.returned
  /\ \/ inCatch /\ done \in {"once", "always"}
     \/ ~inCatch /\ done = "always"

\* `onDone(); this.logger.debug(...)` inside the try: an error of either
\* lands in catch (error) { logger.error(...); onDone(); }.
catchDone(st, inCatch, done) ==
  IF caughtAfterDone(st, inCatch, done)
  THEN [st EXCEPT !.calls = Append(st.calls, Call("onDone", <<>>))]
  ELSE st

\* Locals of a fresh _streamNDJSON call.
ReducerStart == [pending |-> FALSE, leftover |-> <<>>, calls |-> <<>>, returned |-> FALSE]

(***************************************************************************)
(* Requests, payloads and errors.  Strings are sequences of characters;    *)
(* the text of an error message is a sequence of words.                    *)
(***************************************************************************)

\* Bytes the body of a streamResponse call may yield.
MaxCallBytes == 1

TextPart(t) == [type |-> "text", text |-> t]
ImagePart(u) == [type |-> "image_url", image_url |-> [url |-> u]]

\* Message histories a caller sends: plain text, and a system message
\* followed by a user message with a text part and an attached image.
SampleMessages ==
  { << [role |-> "user", content |-> <<"h", "i">>, isArray |-> FALSE] >>,
    << [role |-> "system", content |-> <<"b", "e">>, isArray |-> FALSE],
       [role |-> "user", isArray |-> TRUE,
        content |-> << TextPart(<<"h", "i">>),
                       ImagePart(<<"data:image/png;base64", ",", "Q", "k">>) >>] >> }

\* Longest content-part list of a message handed to the adapter.
MaxParts == 2

\* Content parts: texts with and without blanks at their ends, an empty
\* text, data URLs with the "data:<mime>;base64," prefix, with nothing after
\* it, without it, and an image part whose data is empty.
SampleParts ==
  << TextPart(<<"h", "i">>), TextPart(<<"SP", "a", "SP">>), TextPart(<<>>),
     ImagePart(<<"data:image/png;base64", ",", "Q", "k">>),
     ImagePart(<<"data:image/png;base64", ",">>),
     ImagePart(<<"Z", "g">>), ImagePart(<<>>) >>

RECURSIVE PartLists(_)
PartLists(n) ==
  IF n = 0 THEN {<<>>}
  ELSE PartLists(n - 1)
       \cup {Append(ps, SampleParts[i]) : ps \in PartLists(n - 1), i \in 1..Len(SampleParts)}

PlainMessage(r, t) == [role |-> r, content |-> t, isArray |-> FALSE]
PartsMessage(r, ps) == [role |-> r, content |-> ps, isArray |-> TRUE]

\* Messages with a part list, of the user or of another role.
PartsMessages ==
  {PartsMessage(r, ps) : r \in {"user", "assistant"}, ps \in PartLists(MaxParts)}

\* Histories handed to the adapter: a message with a part list alone, after
\* a system message or before an assistant message; and plain-text histories.
AloneHistories == {<<m>> : m \in PartsMessages}
AfterSystemHistories == {<<PlainMessage("system", <<"b", "e">>), m>> : m \in PartsMessages}
BeforeReplyHistories ==
  {<<m, PlainMessage("assistant", <<"o", "k", "SP">>)>> : m \in PartsMessages}
PlainHistories ==
  {<<PlainMessage("user", <<"SP", "h", "i">>)>>,
   <<PlainMessage("system", <<"b", "e">>), PlainMessage("user", <<"h", "i", "SP">>)>>}

AdapterConfigs(histories) ==
  [model : {"llama3"}, messages : histories, temperature : {7}, maxTokens : {256},
   think : {"false"}, stream : {FALSE}]

\* The caller's request objects.
Configs ==
  [model : {"llama3"}, messages : SampleMessages, temperature : {7}, maxTokens : {256},
   think : {"true", "false", "absent"}, stream : BOOLEAN]

\* String.prototype.indexOf(','): 0 when absent (the source's -1, one-based).
indexOf(str, ch) ==
  LET hits == {i \in 1..Len(str) : str[i] = ch}
  IN  IF hits = {} THEN 0 ELSE CHOOSE i \in hits : \A j \in hits : i <= j

\* textContent += part.text + ' ' over the text parts.
RECURSIVE textOfParts(_)
textOfParts(parts) ==
  IF parts = <<>> THEN <<>>
  ELSE (IF Head(parts).type = "text" THEN Head(parts).text \o <<"SP">> ELSE <<>>)
       \o textOfParts(Tail(parts))

\* Image data pushed with its data-URL prefix.
RECURSIVE imagesOfParts_keepPrefix(_)
imagesOfParts_keepPrefix(parts) ==
  IF parts = <<>> THEN <<>>
  ELSE LET part == Head(parts)
       IN  (IF part.type = "image_url" /\ part.image_url.url # <<>>
            THEN <<part.image_url.url>> ELSE <<>>)
           \o imagesOfParts_keepPrefix(Tail(parts))

\* ollamaMsg.images.push(dataUrl.substring(dataUrl.indexOf(',') + 1))
RECURSIVE imagesOfParts(_)
imagesOfParts(parts) ==
  IF parts = <<>> THEN <<>>
  ELSE LET part == Head(parts)
       IN  (IF part.type = "image_url" /\ part.image_url.url # <<>>
            THEN <<SubSeq(part.image_url.url, indexOf(part.image_url.url, ",") + 1,
                          Len(part.image_url.url))>>
            ELSE <<>>)
           \o imagesOfParts(Tail(parts))

\* An adapter that always emits the images key.
RECURSIVE processMessagesForOllama_alwaysImages(_)
processMessagesForOllama_alwaysImages(messages) ==
  IF messages = <<>> THEN <<>>
  ELSE LET msg == Head(messages)
           out == IF msg.role = "user" /\ msg.isArray
                  THEN [role |-> "user", content |-> trim(textOfParts(msg.content)),
                        images |-> imagesOfParts(msg.content)]
                  ELSE msg
       IN  <<out>> \o processMessagesForOllama_alwaysImages(Tail(messages))

\* An adapter that passes a part list without images through.
RECURSIVE processMessagesForOllama_passTextParts(_)
processMessagesForOllama_passTextParts(messages) ==
  IF messages = <<>> THEN <<>>
  ELSE LET msg == Head(messages)
           images == imagesOfParts(msg.content)
           out == IF msg.role = "user" /\ msg.isArray /\ images # <<>>
                  THEN [role |-> "user", content |-> trim(textOfParts(msg.content)),
                        images |-> images]
                  ELSE msg
       IN  <<out>> \o processMessagesForOllama_passTextParts(Tail(messages))

\* An adapter that converts the part list of a message of any role.
RECURSIVE processMessagesForOllama_anyRole(_)
processMessagesForOllama_anyRole(messages) ==
  IF messages = <<>> THEN <<>>
  ELSE LET msg == Head(messages)
           images == imagesOfParts(msg.content)
           content == trim(textOfParts(msg.content))
           out == IF msg.isArray
                  THEN IF images = <<>>
                       THEN [role |-> "user", content |-> content]
                       ELSE [role |-> "user", content |-> content, images |-> images]
                  ELSE msg
       IN  <<out>> \o processMessagesForOllama_anyRole(Tail(messages))

\* SelfHostedProvider._processMessagesForOllama
RECURSIVE processMessagesForOllama(_)
processMessagesForOllama(messages) ==
  IF messages = <<>> THEN <<>>
  ELSE LET msg == Head(messages)
           images == imagesOfParts(msg.content)
           content == trim(textOfParts(msg.content))
           out == IF msg.role = "user" /\ msg.isArray
                  THEN IF images = <<>>
                       THEN [role |-> "user", content |-> content]
                       ELSE [role |-> "user", content |-> content, images |-> images]
                  ELSE msg
       IN  <<out>> \o processMessagesForOllama(Tail(messages))

\* OpenAIProvider._buildPayload
OpenAI_buildPayload(cfg) ==
  [model |-> cfg.model, messages |-> cfg.messages, temperature |-> cfg.temperature,
   stream |-> cfg.stream, max_tokens |-> cfg.maxTokens]

\* SelfHostedProvider._buildPayload
SelfHosted_buildPayload(cfg) ==
  [model |-> cfg.model, messages |-> processMessagesForOllama(cfg.messages),
   stream |-> cfg.stream,
   options |-> [temperature |-> cfg.temperature, num_predict |-> cfg.maxTokens],
   think |-> cfg.think]

buildPayload(p, cfg) ==
  IF p = "openai" THEN OpenAI_buildPayload(cfg) ELSE SelfHosted_buildPayload(cfg)

\* How the backend answers a request: a 200 with a well-formed body ("ok") or
\* with a body that is no JSON ("okbad"), a 400 whose JSON body says that
\* the model does not support thinking ("nothink"), the same text as a raw,
\* non-JSON body ("rawnothink"), a 500 with another JSON error ("other"), or
\* no HTTP response at all ("neterr").
ReplyKinds == {"ok", "okbad", "nothink", "rawnothink", "other", "neterr"}

FailureKinds == {"nothink", "rawnothink", "other", "neterr"}

Phrase == <<"llama3", "does not support thinking">>

\* resp.ok, resp.status and the text of the body.
ResponseOf(kind) ==
  IF kind = "nothink"
  THEN [ok |-> FALSE, status |-> 400, text |-> <<"{error:">> \o Phrase \o <<"}">>]
  ELSE IF kind = "rawnothink"
  THEN [ok |-> FALSE, status |-> 400, text |-> Phrase]
  ELSE IF kind = "other"
  THEN [ok |-> FALSE, status |-> 500, text |-> <<"{error:", "boom", "}">>]
  ELSE IF kind = "ok"
  THEN [ok |-> TRUE, status |-> 200, text |-> <<"{content:", "hello", "}">>]
  ELSE IF kind = "nobody"
  THEN [ok |-> TRUE, status |-> 200, text |-> <<"null">>]
  ELSE IF kind = "nomessage"
  THEN [ok |-> TRUE, status |-> 200, text |-> <<"{}">>]
  ELSE IF kind = "nocontent"
  THEN [ok |-> TRUE, status |-> 200, text |-> <<"{message:{}}">>]
  ELSE IF kind = "emptycontent"
  THEN [ok |-> TRUE, status |-> 200, text |-> <<"{content:", "", "}">>]
  ELSE IF kind = "nullcontent"
  THEN [ok |-> TRUE, status |-> 200, text |-> <<"{content:", "#null", "}">>]
  ELSE IF kind = "zerocontent"
  THEN [ok |-> TRUE, status |-> 200, text |-> <<"{content:", "#0", "}">>]
  ELSE IF kind = "numbercontent"
  THEN [ok |-> TRUE, status |-> 200, text |-> <<"{content:", "#42", "}">>]
  ELSE [ok |-> TRUE, status |-> 200, text |-> <<"<html>">>]

\* A value of an error body: the parsed object or the raw text.
ObjectBody(err) == [isObject |-> TRUE, error |-> err, text |-> <<>>]
TextBody(txt) == [isObject |-> FALSE, error |-> <<>>, text |-> txt]

\* try { body = JSON.parse(txt); } catch { body = txt; }
parseErrorBody(txt) ==
  IF Len(txt) >= 2 /\ txt[1] = "{error:" /\ txt[Len(txt)] = "}"
  THEN ObjectBody(SubSeq(txt, 2, Len(txt) - 1))
  ELSE TextBody(txt)

\* Values thrown: throw { status, body }, and the errors of fetch and resp.json().
HttpError(status, body) ==
  [name |-> "", hasStatus |-> TRUE, status |-> status, body |-> body, message |-> <<>>]
NetworkError ==
  [name |-> "FetchError", hasStatus |-> FALSE, status |-> 0, body |-> TextBody(<<>>),
   message |-> <<"fetch failed">>]
SyntaxError ==
  [name |-> "SyntaxError", hasStatus |-> FALSE, status |-> 0, body |-> TextBody(<<>>),
   message |-> <<"Unexpected token">>]
NoError ==
  [name |-> "none", hasStatus |-> FALSE, status |-> 0, body |-> TextBody(<<>>),
   message |-> <<>>]

\* new Error(message)
ErrorOf(message) ==
  [name |-> "Error", hasStatus |-> FALSE, status |-> 0, body |-> TextBody(<<>>),
   message |-> message]

\* The `if (!resp.ok)` branch of _sendRequestInternal of each provider.
sendError(p, resp) ==
  IF p = "openai" THEN HttpError(resp.status, TextBody(resp.text))
  ELSE HttpError(resp.status, parseErrorBody(resp.text))

\* const errorMsg = err.body?.error || '';
errorMsg(err) == IF err.body.isObject THEN err.body.error ELSE <<>>

\* /does not support thinking/.test(errorMsg)
matches(msg) == \E i \in 1..Len(msg) : msg[i] = "does not support thinking"

\* Replies with status 200 to a bulk request: the content "hello", the body
\* null, no message, a message without content, and the contents "", null, 0
\* and 42; "okbad" is a body that is no JSON.
BulkReplyKinds ==
  {"ok", "nobody", "nomessage", "nocontent", "emptycontent", "nullcontent", "zerocontent",
   "numbercontent", "okbad"}

\* A returned value that is no string is written with its type in front.
NumberValue(digits) == <<"#number", digits>>

\* content || '' on the JSON value written as one word: "" is the empty
\* string, "#null", "#0" and "#42" are null and the numbers 0 and 42, any
\* other word is a string.
orEmpty(word) ==
  IF word \in {"", "#null", "#0"} THEN <<>>
  ELSE IF word = "#42" THEN NumberValue("42")
  ELSE <<word>>

\* await resp.json() and data?.message?.content || '' (data?.choices?.[0]... for
\* the cloud API): [ok, value].
bulkContent(resp) ==
  IF resp.text \in {<<"null">>, <<"{}">>, <<"{message:{}}">>}
  THEN [ok |-> TRUE, value |-> <<>>]
  ELSE IF Len(resp.text) = 3 /\ resp.text[1] = "{content:" /\ resp.text[3] = "}"
  THEN [ok |-> TRUE, value |-> orEmpty(resp.text[2])]
  ELSE [ok |-> FALSE, value |-> <<>>]

Pending == [kind |-> "pending", value |-> <<>>, error |-> NoError]
Resolved(v) == [kind |-> "resolved", value |-> v, error |-> NoError]
Rejected(e) == [kind |-> "rejected", value |-> <<>>, error |-> e]

\* A first attempt that asks for thinking whatever config.think is.
firstThink_always(p, cfg) == p = "selfhosted"

\* `if (config.think)`: present in the self-hosted provider only.
firstThink(p, cfg) == p = "selfhosted" /\ cfg.think = "true"

\* A first request that passes the caller's own stream flag on.
firstConfig_callerStream(p, o, cfg) ==
  IF p = "openai" THEN cfg ELSE [cfg EXCEPT !.think = firstThink(p, cfg)]

\* The config of the first _sendRequestInternal of an operation.
firstConfig(p, o, cfg) ==
  IF p = "openai" THEN [cfg EXCEPT !.stream = (o = "stream")]
  ELSE [cfg EXCEPT !.stream = (o = "stream"), !.think = firstThink(p, cfg)]

\* A retry that resends the request as it was.
retryConfig_keepThink(o, cfg) == [cfg EXCEPT !.stream = (o = "stream"), !.think = TRUE]

\* { ...config, stream, think: false }: the request after the try block.
retryConfig(o, cfg) == [cfg EXCEPT !.stream = (o = "stream"), !.think = FALSE]

\* A catch block that falls through to the retry on every error.
shouldRetry_any(o, st, err) == st = "think"

\* A catch block that only generateResponse has.
shouldRetry_bulkOnly(o, st, err) ==
  o = "generate" /\ st = "think" /\ matches(errorMsg(err))

\* The catch block of the try around the think attempt.
shouldRetry(o, st, err) == st = "think" /\ matches(errorMsg(err))

\* A retry that stays inside the think attempt.
afterThrow_again(p, o, st, cfg, reqs, err) ==
  IF shouldRetry(o, st, err)
  THEN [pc |-> "fetch", stage |-> "think", outcome |-> Pending,
        requests |-> Append(reqs, buildPayload(p, retryConfig(o, cfg)))]
  ELSE [pc |-> "done", stage |-> st, outcome |-> Rejected(err), requests |-> reqs]

\* An operation that sends its request a second time after any failure.
afterThrow_retryOnce(p, o, st, cfg, reqs, err) ==
  IF Len(reqs) < 2
  THEN [pc |-> "fetch", stage |-> "plain", outcome |-> Pending,
        requests |-> Append(reqs, buildPayload(p, firstConfig(p, o, cfg)))]
  ELSE [pc |-> "done", stage |-> st, outcome |-> Rejected(err), requests |-> reqs]

\* What an operation does with an error thrown by an awaited call: retry
\* without thinking, or reject with the error.
afterThrow(p, o, st, cfg, reqs, err) ==
  IF shouldRetry(o, st, err)
  THEN [pc |-> "fetch", stage |-> "plain", outcome |-> Pending,
        requests |-> Append(reqs, buildPayload(p, retryConfig(o, cfg)))]
  ELSE [pc |-> "done", stage |-> st, outcome |-> Rejected(err), requests |-> reqs]

\* The caller's object after `config.stream = ...` on the object itself.
callerAfter_assignStream(cfg, sentCfg) == [cfg EXCEPT !.stream = sentCfg.stream]

\* The caller's object after _sendRequestInternal({ ...config, stream, think }):
\* the literal is a new object, nothing is assigned to config or its messages.
callerAfter(cfg, sentCfg) == cfg

Ops == {"generate", "stream"}

NoResult == [kind |-> "none", error |-> NoError, requests |-> <<>>]

\* Longest list of models a backend answers with.
MaxModels == 2

\* A value that `!x` and `x || y` take for missing: undefined or ''.
Falsy(x) == x \in {"absent", ""}

\* a || b
Or(a, b) == IF Falsy(a) THEN b ELSE a

Created(p, cred) == [ok |-> TRUE, provider |-> p, credential |-> cred, error |-> NoError]
Failed(message) ==
  [ok |-> FALSE, provider |-> "none", credential |-> "", error |-> ErrorOf(message)]

\* A provider setup that prefers the process-wide default.
createProvider_envFirst(providerType, apiKey, modelUrl, e) ==
  IF providerType = "openai"
  THEN LET key == Or(e.OPENAI_API_KEY, apiKey)
       IN  IF Falsy(key) THEN Failed(<<"Missing", "OpenAI API key", "on server.">>)
           ELSE Created("openai", key)
  ELSE IF providerType = "selfhosted"
  THEN LET url == Or(e.MODEL_URL, modelUrl)
       IN  IF Falsy(url) THEN Failed(<<"Missing", "Self-Hosted model URL", "on server.">>)
           ELSE Created("selfhosted", url)
  ELSE Failed(<<"Unknown provider type:", providerType>>)

\* A provider setup that falls back to a local self-hosted backend.
createProvider_lenient(providerType, apiKey, modelUrl, e) ==
  IF providerType = "openai"
  THEN Created("openai", Or(Or(apiKey, e.OPENAI_API_KEY), "none"))
  ELSE Created("selfhosted", Or(Or(modelUrl, e.MODEL_URL), "localhost"))

\* The provider setup of the handlers of /api/chat and /api/models.
createProvider(providerType, apiKey, modelUrl, e) ==
  IF providerType = "openai"
  THEN LET key == Or(apiKey, e.OPENAI_API_KEY)
       IN  IF Falsy(key) THEN Failed(<<"Missing", "OpenAI API key", "on server.">>)
           ELSE Created("openai", key)
  ELSE IF providerType = "selfhosted"
  THEN LET url == Or(modelUrl, e.MODEL_URL)
       IN  IF Falsy(url) THEN Failed(<<"Missing", "Self-Hosted model URL", "on server.">>)
           ELSE Created("selfhosted", url)
  ELSE Failed(<<"Unknown provider type:", providerType>>)

\* The first statement of fetchModels: the error thrown without a credential.
missingCredential(p) ==
  IF p = "openai" THEN ErrorOf(<<"Please enter an API key first">>)
  ELSE ErrorOf(<<"Please enter a model URL first">>)

\* if (!resp.ok) throw new Error(`HTTP ${resp.status}`);
modelsError(resp) == ErrorOf(<<"HTTP", ToString(resp.status)>>)

\* The body of the backend's list: data.data of ids, data.models of names.
wireModels(p, names) ==
  [i \in 1..Len(names) |-> IF p = "openai" THEN [id |-> names[i]] ELSE [name |-> names[i]]]

\* data.data.map(m => ({ id: m.id, name: m.id })), data.models.map(m =>
\* ({ id: m.name, name: m.name }))
mapModels(p, list) ==
  [i \in 1..Len(list) |->
     IF p = "openai" THEN [id |-> list[i].id, name |-> list[i].id]
     ELSE [id |-> list[i].name, name |-> list[i].name]]

\* error.message || 'An unknown server error occurred'
messageOf(err) ==
  IF err.message = <<>> THEN <<"An unknown server error occurred">> ELSE err.message

\* req.file of multer: absent, or the MIME type and the bytes of the upload.
NoFile == [present |-> FALSE, mimetype |-> "", buffer |-> <<>>]
File(mimetype, buffer) == [present |-> TRUE, mimetype |-> mimetype, buffer |-> buffer]

NoRequest ==
  [endpoint |-> "none", payload |-> "absent", providerType |-> "none",
   apiKey |-> "absent", modelUrl |-> "absent", file |-> NoFile]
NoEnv == [OPENAI_API_KEY |-> "absent", MODEL_URL |-> "absent"]

\* The HTTP response: `sent` is res.headersSent, `kind` what the body is,
\* `writes` the chunks written, `ended` how often the response was ended and
\* `late` how many chunks were written after that.
NoResponse ==
  [sent |-> FALSE, status |-> 0, kind |-> "none", error |-> <<>>, models |-> <<>>,
   content |-> <<>>, writes |-> <<>>, ended |-> 0, late |-> 0]

\* res.status(status).json({ error })
JsonError(status, message) ==
  [NoResponse EXCEPT !.sent = TRUE, !.status = status, !.kind = "json",
                     !.error = message, !.ended = 1]

\* res.json(models)
JsonModels(models) ==
  [NoResponse EXCEPT !.sent = TRUE, !.status = 200, !.kind = "json",
                     !.models = models, !.ended = 1]

\* res.json({ content: content })
JsonContent(content) ==
  [NoResponse EXCEPT !.sent = TRUE, !.status = 200, !.kind = "json",
                     !.content = content, !.ended = 1]

\* The answer of the framework's own error handler: a 500 that is no JSON.
FrameworkError ==
  [NoResponse EXCEPT !.sent = TRUE, !.status = 500, !.kind = "html", !.ended = 1]

\* res.write(chunk)
resWrite(r, chunk) ==
  IF r.ended > 0 THEN [r EXCEPT !.late = @ + 1]
  ELSE [r EXCEPT !.sent = TRUE, !.status = IF @ = 0 THEN 200 ELSE @,
                 !.kind = "stream", !.writes = Append(@, chunk)]

\* res.end()
resEnd(r) ==
  [r EXCEPT !.sent = TRUE, !.status = IF @ = 0 THEN 200 ELSE @,
            !.kind = IF @ = "none" THEN "stream" ELSE @, !.ended = @ + 1]

\* An onDone of the chat handler that leaves the response open.
serverOnDone_keepOpen(r, stream) == r

\* config.onContent = (chunk) => { if (stream) res.write(chunk); }
serverOnContent(r, chunk, stream) == IF stream THEN resWrite(r, chunk) ELSE r

\* config.onDone = () => { if (stream) res.end(); ... }
serverOnDone(r, stream) == IF stream THEN resEnd(r) ELSE r

\* The effect on the response of the callbacks a reducer step invoked.
RECURSIVE applyCallbacks(_, _, _)
applyCallbacks(r, calls, stream) ==
  IF calls = <<>> THEN r
  ELSE LET c == Head(calls)
           r1 == IF c.cb = "onContent" THEN serverOnContent(r, c.arg, stream)
                 ELSE IF c.cb = "onDone" THEN serverOnDone(r, stream)
                 ELSE r
       IN  applyCallbacks(r1, Tail(calls), stream)

\* The statements of the chat handler after its await: res.json with the
\* content in bulk mode, and the catch block for an operation that threw.
chatSettled(r, out, stream) ==
  IF out.kind = "resolved"
  THEN IF stream THEN r ELSE JsonContent(out.value)
  ELSE IF ~r.sent THEN JsonError(500, messageOf(out.error))
  ELSE resEnd(r)

\* The base64 alphabet, from value 0.
Base64Chars ==
  << "A", "B", "C", "D", "E", "F", "G", "H", "I", "J", "K", "L", "M", "N", "O", "P",
     "Q", "R", "S", "T", "U", "V", "W", "X", "Y", "Z", "a", "b", "c", "d", "e", "f",
     "g", "h", "i", "j", "k", "l", "m", "n", "o", "p", "q", "r", "s", "t", "u", "v",
     "w", "x", "y", "z", "0", "1", "2", "3", "4", "5", "6", "7", "8", "9", "+", "/" >>

Base64Char(v) == Base64Chars[v + 1]

\* buffer.toString('base64')
RECURSIVE toBase64(_)
toBase64(bytes) ==
  IF bytes = <<>> THEN <<>>
  ELSE IF Len(bytes) = 1
  THEN LET n == bytes[1] * 16
       IN  <<Base64Char(n \div 64), Base64Char(n % 64), "=", "=">>
  ELSE IF Len(bytes) = 2
  THEN LET n == (bytes[1] * 256 + bytes[2]) * 4
       IN  <<Base64Char(n \div 4096), Base64Char((n \div 64) % 64), Base64Char(n % 64), "=">>
  ELSE LET n == bytes[1] * 65536 + bytes[2] * 256 + bytes[3]
       IN  <<Base64Char(n \div 262144), Base64Char((n \div 4096) % 64),
             Base64Char((n \div 64) % 64), Base64Char(n % 64)>>
           \o toBase64(SubSeq(bytes, 4, Len(bytes)))

\* `data:${mimeType};base64,${imageBase64}` with mimeType = req.file.mimetype
\* || 'image/png'
imageData(file) ==
  <<"data:", IF file.mimetype = "" THEN "image/png" ELSE file.mimetype, ";base64", ",">>
  \o toBase64(file.buffer)

\* config.messages.slice().reverse().find(m => m.role === 'user'): the place
\* of the last user message, 0 when there is none.
lastUserMsg(messages) ==
  LET users == {i \in 1..Len(messages) : messages[i].role = "user"}
  IN  IF users = {} THEN 0 ELSE CHOOSE i \in users : \A j \in users : j <= i

\* An image handling that attaches the image to the first user message.
mergeImage_firstUser(messages, file) ==
  LET users == {i \in 1..Len(messages) : messages[i].role = "user"}
      at == IF users = {} THEN 0 ELSE CHOOSE i \in users : \A j \in users : i <= j
  IN  IF ~file.present \/ at = 0 THEN messages
      ELSE [messages EXCEPT ![at] =
              [role |-> "user", isArray |-> TRUE,
               content |-> <<[type |-> "text", text |-> messages[at].content],
                             [type |-> "image_url", image_url |-> [url |-> imageData(file)]]>>]]

\* The image handling of the chat handler: `if (req.file) { ... }`.
mergeImage(messages, file) ==
  LET at == lastUserMsg(messages)
  IN  IF ~file.present \/ at = 0 THEN messages
      ELSE [messages EXCEPT ![at] =
              [role |-> "user", isArray |-> TRUE,
               content |-> <<[type |-> "text", text |-> messages[at].content],
                             [type |-> "image_url", image_url |-> [url |-> imageData(file)]]>>]]

\* No second call.
NoCall == [provider |-> "none", rpc |-> "off", red |-> ReducerStart, exit |-> "", sent |-> <<>>]

\* Callbacks that never raise: `at` is the number of the onContent or
\* onThinking invocation of a call that raises, 0 for none; `done` says what
\* goes wrong at onDone.
NoFaults == [at |-> 0, done |-> "never"]

VARIABLES
  provider,   \* class of the provider instance
  config,     \* the caller's request object
  script,     \* the backend's answers to the first and the second request of a call
  limit,      \* bytes the body of a streamed response may yield
  op,         \* the operation in progress or last finished: "none", "generate", "stream"
  pc,         \* its position: "idle", "fetch", "json", "stream", "done"
  stage,      \* "think" inside the try block of the think attempt, else "plain"
  requests,   \* the payloads the operation has sent to the backend
  outcome,    \* how the operation's promise settled
  results,    \* outcome and requests of each finished operation
  rpc,        \* position of _streamNDJSON: "off", "read" (awaiting a chunk), "returned"
  red,        \* locals of _streamNDJSON and the callbacks invoked so far
  exit,       \* how _streamNDJSON ended: "", "sentinel", "normal", "error", "raised"
  sent,       \* the bytes resp.body has yielded so far
  cut,        \* where chunk boundaries fell: "none", inside a "line", inside a "char"
  credential, \* this.apiKey or this.baseUrl of the provider instance
  catalog,    \* the names of the models the backend lists
  request,    \* the HTTP request the server is handling, NoRequest without a server
  env,        \* process.env: OPENAI_API_KEY and MODEL_URL
  res,        \* the HTTP response of the server
  other,      \* a second _streamNDJSON call in flight: its provider, locals and body
  faults      \* which invocation of the caller's callbacks raises

callVars == <<config, script, limit, op, pc, stage, requests, outcome, results>>
reducerVars == <<rpc, red, exit, sent, cut>>
modelsVars == <<credential, catalog>>
streamsVars == <<other, faults>>
serverVars == <<request, env, res>>
vars == <<provider, callVars, reducerVars, modelsVars, serverVars, streamsVars>>

\* A step of the try block takes the reducer to st1 when no callback raises;
\* `leaving` names the way the step leaves the function when it does.
ReducerStep(st1, leaving) ==
  LET inCatch == raisedIn(red, st1, faults.at)
      st2 == catchRaise(red, st1, faults.at)
      st == catchDone(st2, inCatch, faults.done)
  IN  /\ red' = st
      /\ rpc' = IF st.returned THEN "returned" ELSE "read"
      /\ exit' = IF thrownByDone(st2, inCatch, faults.done) THEN "thrown"
                 ELSE IF inCatch THEN "raised"
                 ELSE IF st.returned THEN leaving ELSE exit

\* resp.body yields the next chunk.
ReadChunk ==
  /\ rpc = "read"
  /\ \E chunk \in SeqsUpTo(BytesOf(provider), limit - Len(sent)) :
       /\ ReducerStep(onChunk(provider, localsOf(red, other.red), chunk), "sentinel")
       /\ sent' = sent \o chunk
       /\ cut' = IF chunk = <<>> THEN cut
                 ELSE IF red.pending /\ Head(chunk) = "T" THEN "char"
                 ELSE IF cut = "none" /\ red.leftover # <<>> THEN "line"
                 ELSE cut

\* resp.body ends.
BodyEnd ==
  /\ rpc = "read"
  /\ ReducerStep(onEnd(provider, localsOf(red, other.red)), "normal")
  /\ UNCHANGED <<sent, cut>>

\* Reading resp.body raises.
BodyError ==
  /\ rpc = "read"
  /\ red' = onError(red)
  /\ rpc' = "returned"
  /\ exit' = IF thrownByDone(onError(red), TRUE, faults.done) THEN "thrown" ELSE "error"
  /\ UNCHANGED <<sent, cut>>

\* _streamNDJSON called on a response whose body is still to come.
InitReducer ==
  /\ provider \in Providers
  /\ config \in {c \in Configs : c.think = "false" /\ c.stream /\ Len(c.messages) = 1}
  /\ script = [first |-> "ok", second |-> "ok"]
  /\ limit = MaxBytes
  /\ op = "none"
  /\ pc = "idle"
  /\ stage = "plain"
  /\ requests = <<>>
  /\ outcome = Pending
  /\ results = [o \in Ops |-> NoResult]
  /\ rpc = "read"
  /\ red = ReducerStart
  /\ exit = ""
  /\ sent = <<>>
  /\ cut = "none"
  /\ credential = "k"
  /\ catalog = <<>>
  /\ request = NoRequest
  /\ env = NoEnv
  /\ res = NoResponse
  /\ other = NoCall
  /\ faults = NoFaults

NextReducer == (ReadChunk \/ BodyEnd \/ BodyError) /\ UNCHANGED <<provider, callVars, modelsVars, streamsVars, serverVars>>

SpecReducer == InitReducer /\ [][NextReducer]_vars

(***************************************************************************)
(* generateResponse and streamResponse of a provider instance.             *)
(***************************************************************************)

\* The backend's answer to the request sent last.
ReplyKind == IF Len(requests) <= 1 THEN script.first ELSE script.second

Summary(out, reqs) == [kind |-> out.kind, error |-> out.error, requests |-> reqs]

\* The promise of the operation settles.
Settle(out, reqs) ==
  /\ pc' = "done"
  /\ outcome' = out
  /\ requests' = reqs
  /\ results' = [results EXCEPT ![op] = Summary(out, reqs)]

\* An awaited call of the operation throws err.
Throw(err) ==
  LET nxt == afterThrow(provider, op, stage, config, requests, err)
  IN  IF nxt.pc = "done"
      THEN Settle(nxt.outcome, nxt.requests) /\ stage' = nxt.stage /\ config' = config
      ELSE /\ pc' = nxt.pc
           /\ config' = callerAfter(config, retryConfig(op, config))
           /\ stage' = nxt.stage
           /\ requests' = nxt.requests
           /\ outcome' = nxt.outcome
           /\ UNCHANGED results

\* The caller invokes an operation; it runs up to its first await, the
\* fetch of _sendRequestInternal.
Invoke(o) ==
  /\ pc \in {"idle", "done"}
  /\ results[o] = NoResult
  /\ op' = o
  /\ pc' = "fetch"
  /\ stage' = IF firstThink(provider, config) THEN "think" ELSE "plain"
  /\ requests' = <<buildPayload(provider, firstConfig(provider, o, config))>>
  /\ outcome' = Pending
  /\ rpc' = "off"
  /\ red' = ReducerStart
  /\ exit' = ""
  /\ sent' = <<>>
  /\ cut' = "none"
  /\ config' = callerAfter(config, firstConfig(provider, o, config))
  /\ UNCHANGED <<modelsVars, streamsVars, serverVars, provider, script, limit, results>>

GenerateResponse == Invoke("generate")

StreamResponse == Invoke("stream")

\* fetch rejects: no HTTP response.
FetchRejects ==
  /\ pc = "fetch"
  /\ ReplyKind = "neterr"
  /\ Throw(NetworkError)
  /\ UNCHANGED <<modelsVars, streamsVars, serverVars, provider, script, limit, op, reducerVars>>

\* fetch resolves with a response that is not ok: throw { status, body }.
FetchNotOk ==
  /\ pc = "fetch"
  /\ ReplyKind # "neterr"
  /\ ~ResponseOf(ReplyKind).ok
  /\ Throw(sendError(provider, ResponseOf(ReplyKind)))
  /\ UNCHANGED <<modelsVars, streamsVars, serverVars, provider, script, limit, op, reducerVars>>

\* fetch resolves with an ok response in generateResponse: await resp.json().
FetchOkBulk ==
  /\ pc = "fetch"
  /\ op = "generate"
  /\ ReplyKind # "neterr"
  /\ ResponseOf(ReplyKind).ok
  /\ pc' = "json"
  /\ UNCHANGED <<modelsVars, streamsVars, serverVars, provider, config, script, limit, op, stage, requests, outcome, results,
                 reducerVars>>

\* resp.json() settles: the content is returned, or the SyntaxError thrown.
JsonParsed ==
  /\ pc = "json"
  /\ LET data == bulkContent(ResponseOf(ReplyKind))
     IN  IF data.ok THEN Settle(Resolved(data.value), requests) /\ UNCHANGED <<stage, config>>
         ELSE Throw(SyntaxError)
  /\ UNCHANGED <<modelsVars, streamsVars, serverVars, provider, script, limit, op, reducerVars>>

\* fetch resolves with an ok response in streamResponse: _streamNDJSON starts.
FetchOkStream ==
  /\ pc = "fetch"
  /\ op = "stream"
  /\ ReplyKind # "neterr"
  /\ ResponseOf(ReplyKind).ok
  /\ pc' = "stream"
  /\ rpc' = "read"
  /\ UNCHANGED <<modelsVars, streamsVars, serverVars, provider, config, script, limit, op, stage, requests, outcome, results,
                 red, exit, sent, cut>>

\* A reducer that lets the error of the body reach its caller.
streamOutcome_rethrow(ex) ==
  IF ex = "error" THEN Rejected(NetworkError) ELSE Resolved(<<>>)

\* `await this._streamNDJSON(...)`: the reducer catches the error of the body
\* itself, so the await throws only what the onDone() of the catch block
\* raised; otherwise the operation returns undefined.
streamOutcome(ex) ==
  IF ex = "thrown" THEN Rejected(ErrorOf(<<"raised by onDone">>)) ELSE Resolved(<<>>)

\* streamResponse resolves when _streamNDJSON has returned.
StreamSettles ==
  IF rpc' = "returned" THEN Settle(streamOutcome(exit'), requests)
  ELSE UNCHANGED <<pc, outcome, requests, results>>

StreamChunk ==
  /\ pc = "stream"
  /\ ReadChunk
  /\ StreamSettles
  /\ UNCHANGED <<modelsVars, streamsVars, serverVars, provider, config, script, limit, op, stage>>

StreamEnd ==
  /\ pc = "stream"
  /\ BodyEnd
  /\ StreamSettles
  /\ UNCHANGED <<modelsVars, streamsVars, serverVars, provider, config, script, limit, op, stage>>

StreamError ==
  /\ pc = "stream"
  /\ BodyError
  /\ StreamSettles
  /\ UNCHANGED <<modelsVars, streamsVars, serverVars, provider, config, script, limit, op, stage>>

\* A provider instance built for one request object.
Init ==
  /\ provider \in Providers
  /\ config \in Configs
  /\ script \in [first : ReplyKinds, second : ReplyKinds]
  /\ limit = MaxCallBytes
  /\ op = "none"
  /\ pc = "idle"
  /\ stage = "plain"
  /\ requests = <<>>
  /\ outcome = Pending
  /\ results = [o \in Ops |-> NoResult]
  /\ rpc = "off"
  /\ red = ReducerStart
  /\ exit = ""
  /\ sent = <<>>
  /\ cut = "none"
  /\ credential = "k"
  /\ catalog = <<>>
  /\ request = NoRequest
  /\ env = NoEnv
  /\ res = NoResponse
  /\ other = NoCall
  /\ faults = NoFaults

Next ==
  \/ GenerateResponse
  \/ StreamResponse
  \/ FetchRejects
  \/ FetchNotOk
  \/ FetchOkBulk
  \/ JsonParsed
  \/ FetchOkStream
  \/ StreamChunk
  \/ StreamEnd
  \/ StreamError

Spec == Init /\ [][Next]_vars

\* One streamResponse call whose response body is still to come.
InitStream ==
  /\ provider \in Providers
  /\ config \in {c \in Configs : c.think = "false" /\ c.stream /\ Len(c.messages) = 1}
  /\ script = [first |-> "ok", second |-> "ok"]
  /\ limit = MaxBytes
  /\ op = "none"
  /\ pc = "idle"
  /\ stage = "plain"
  /\ requests = <<>>
  /\ outcome = Pending
  /\ results = [o \in Ops |-> NoResult]
  /\ rpc = "off"
  /\ red = ReducerStart
  /\ exit = ""
  /\ sent = <<>>
  /\ cut = "none"
  /\ credential = "k"
  /\ catalog = <<>>
  /\ request = NoRequest
  /\ env = NoEnv
  /\ res = NoResponse
  /\ other = NoCall
  /\ faults = NoFaults

NextStream ==
  \/ StreamResponse
  \/ FetchOkStream
  \/ StreamChunk
  \/ StreamEnd
  \/ StreamError

SpecStream == InitStream /\ [][NextStream]_vars

\* A self-hosted provider about to build the payload of a request whose
\* messages carry content parts.
InitAdapter ==
  /\ provider = "selfhosted"
  /\ \/ config \in AdapterConfigs(AloneHistories)
     \/ config \in AdapterConfigs(AfterSystemHistories)
     \/ config \in AdapterConfigs(BeforeReplyHistories)
     \/ config \in AdapterConfigs(PlainHistories)
  /\ script = [first |-> "ok", second |-> "ok"]
  /\ limit = MaxCallBytes
  /\ op = "none"
  /\ pc = "idle"
  /\ stage = "plain"
  /\ requests = <<>>
  /\ outcome = Pending
  /\ results = [o \in Ops |-> NoResult]
  /\ rpc = "off"
  /\ red = ReducerStart
  /\ exit = ""
  /\ sent = <<>>
  /\ cut = "none"
  /\ credential = "k"
  /\ catalog = <<>>
  /\ request = NoRequest
  /\ env = NoEnv
  /\ res = NoResponse
  /\ other = NoCall
  /\ faults = NoFaults

NextAdapter == GenerateResponse \/ StreamResponse

SpecAdapter == InitAdapter /\ [][NextAdapter]_vars

\* generateResponse of a provider against a backend that answers a bulk
\* request with any of the 200 replies.
InitBulk ==
  /\ provider \in Providers
  /\ config \in Configs
  /\ script \in [first : BulkReplyKinds \cup {"nothink", "other"}, second : BulkReplyKinds]
  /\ limit = MaxCallBytes
  /\ op = "none"
  /\ pc = "idle"
  /\ stage = "plain"
  /\ requests = <<>>
  /\ outcome = Pending
  /\ results = [o \in Ops |-> NoResult]
  /\ rpc = "off"
  /\ red = ReducerStart
  /\ exit = ""
  /\ sent = <<>>
  /\ cut = "none"
  /\ credential = "k"
  /\ catalog = <<>>
  /\ request = NoRequest
  /\ env = NoEnv
  /\ res = NoResponse
  /\ other = NoCall
  /\ faults = NoFaults

NextBulk ==
  \/ GenerateResponse
  \/ FetchNotOk
  \/ FetchOkBulk
  \/ JsonParsed

SpecBulk == InitBulk /\ [][NextBulk]_vars

(***************************************************************************)
(* streamResponse with callbacks of the caller that may raise.             *)
(***************************************************************************)

\* Bytes the body yields, and the latest callback invocation that may raise.
MaxRaiseBytes == 3
MaxRaiseAt == 2

\* One streamResponse call whose onContent or onThinking raises at its
\* faults.at-th invocation (never, when that is 0).
InitRaise ==
  /\ provider \in Providers
  /\ config \in {c \in Configs : c.think = "false" /\ c.stream /\ Len(c.messages) = 1}
  /\ script = [first |-> "ok", second |-> "ok"]
  /\ limit = MaxRaiseBytes
  /\ op = "none"
  /\ pc = "idle"
  /\ stage = "plain"
  /\ requests = <<>>
  /\ outcome = Pending
  /\ results = [o \in Ops |-> NoResult]
  /\ rpc = "off"
  /\ red = ReducerStart
  /\ exit = ""
  /\ sent = <<>>
  /\ cut = "none"
  /\ credential = "k"
  /\ catalog = <<>>
  /\ request = NoRequest
  /\ env = NoEnv
  /\ res = NoResponse
  /\ other = NoCall
  /\ faults \in [at : 0..MaxRaiseAt, done : {"never"}]

SpecRaise == InitRaise /\ [][NextStream]_vars

\* One streamResponse call whose onDone, or the logging after it, may raise.
InitDone ==
  /\ provider \in Providers
  /\ config \in {c \in Configs : c.think = "false" /\ c.stream /\ Len(c.messages) = 1}
  /\ script = [first |-> "ok", second |-> "ok"]
  /\ limit = MaxRaiseBytes
  /\ op = "none"
  /\ pc = "idle"
  /\ stage = "plain"
  /\ requests = <<>>
  /\ outcome = Pending
  /\ results = [o \in Ops |-> NoResult]
  /\ rpc = "off"
  /\ red = ReducerStart
  /\ exit = ""
  /\ sent = <<>>
  /\ cut = "none"
  /\ credential = "k"
  /\ catalog = <<>>
  /\ request = NoRequest
  /\ env = NoEnv
  /\ res = NoResponse
  /\ other = NoCall
  /\ faults \in [at : {0}, done : DoneFaults]

SpecDone == InitDone /\ [][NextStream]_vars

(***************************************************************************)
(* Two _streamNDJSON calls whose steps interleave at their awaits.         *)
(***************************************************************************)

\* Bytes the body of the second call may yield.
MaxPairBytes == 2

\* The bytes of the second call's body.
PairBytes(p) ==
  IF p = "openai" THEN {"P", "SP", "X", "NL"} ELSE {"K", "C", "E", "NL"}

\* The body of the second call yields its next chunk.
OtherReadChunk ==
  /\ other.rpc = "read"
  /\ \E chunk \in SeqsUpTo(PairBytes(other.provider), MaxPairBytes - Len(other.sent)) :
       LET st == onChunk(other.provider, localsOf(other.red, red), chunk)
       IN  other' = [other EXCEPT !.red = st,
                                  !.sent = other.sent \o chunk,
                                  !.rpc = IF st.returned THEN "returned" ELSE "read",
                                  !.exit = IF st.returned THEN "sentinel" ELSE other.exit]
  /\ UNCHANGED <<provider, callVars, reducerVars, modelsVars, serverVars, faults>>

\* The body of the second call ends.
OtherBodyEnd ==
  /\ other.rpc = "read"
  /\ other' = [other EXCEPT !.red = onEnd(other.provider, localsOf(other.red, red)),
                            !.rpc = "returned",
                            !.exit = "normal"]
  /\ UNCHANGED <<provider, callVars, reducerVars, modelsVars, serverVars, faults>>

\* Reading the body of the second call raises.
OtherBodyError ==
  /\ other.rpc = "read"
  /\ other' = [other EXCEPT !.red = onError(other.red),
                            !.rpc = "returned",
                            !.exit = "error"]
  /\ UNCHANGED <<provider, callVars, reducerVars, modelsVars, serverVars, faults>>

\* Two calls that have their responses, on one provider instance or on
\* instances of either class.
InitPair ==
  /\ provider \in Providers
  /\ config \in {c \in Configs : c.think = "false" /\ c.stream /\ Len(c.messages) = 1}
  /\ script = [first |-> "ok", second |-> "ok"]
  /\ limit = MaxCallBytes
  /\ op = "none"
  /\ pc = "idle"
  /\ stage = "plain"
  /\ requests = <<>>
  /\ outcome = Pending
  /\ results = [o \in Ops |-> NoResult]
  /\ rpc = "read"
  /\ red = ReducerStart
  /\ exit = ""
  /\ sent = <<>>
  /\ cut = "none"
  /\ credential = "k"
  /\ catalog = <<>>
  /\ request = NoRequest
  /\ env = NoEnv
  /\ res = NoResponse
  /\ other \in [provider : Providers, rpc : {"read"}, red : {ReducerStart}, exit : {""},
                sent : {<<>>}]
  /\ faults = NoFaults

NextPair ==
  \/ NextReducer
  \/ OtherReadChunk
  \/ OtherBodyEnd
  \/ OtherBodyError

SpecPair == InitPair /\ [][NextPair]_vars

(***************************************************************************)
(* _parseStreamLine alone, on the text of one line.                        *)
(***************************************************************************)

\* Longest line handed to a parser.
MaxLineLen == 3

\* The text a line may hold: the symbols of both wire formats.
LineSymbols ==
  {"SP", "EA", "P", "X", "G", "H", "D", "C", "K", "E", "F", "DF", "DS", "D1", "MD", "N"}

\* this._parseStreamLine(line) on the line held in `sent`, and the inner loop
\* of the reducer on that line alone.
ParseLine ==
  /\ op = "none"
  /\ pc = "idle"
  /\ op' = "parse"
  /\ pc' = "done"
  /\ outcome' = Resolved(parseStreamLine(provider, sent))
  /\ red' = LET r == forLines(provider, <<sent>>, <<>>)
            IN  [red EXCEPT !.calls = r.calls, !.returned = r.returned]
  /\ UNCHANGED <<provider, config, script, limit, stage, requests, results, rpc, exit,
                 sent, cut, modelsVars, streamsVars, serverVars>>

\* A parser of either provider and a line of text.
InitParser ==
  /\ provider \in Providers
  /\ config \in {c \in Configs : c.think = "false" /\ c.stream /\ Len(c.messages) = 1}
  /\ script = [first |-> "ok", second |-> "ok"]
  /\ limit = MaxLineLen
  /\ op = "none"
  /\ pc = "idle"
  /\ stage = "plain"
  /\ requests = <<>>
  /\ outcome = Pending
  /\ results = [o \in Ops |-> NoResult]
  /\ rpc = "off"
  /\ red = ReducerStart
  /\ exit = ""
  /\ sent \in SeqsUpTo(LineSymbols, MaxLineLen)
  /\ cut = "none"
  /\ credential = "k"
  /\ catalog = <<>>
  /\ request = NoRequest
  /\ env = NoEnv
  /\ res = NoResponse
  /\ other = NoCall
  /\ faults = NoFaults

NextParser == ParseLine

SpecParser == InitParser /\ [][NextParser]_vars

(***************************************************************************)
(* fetchModels of a provider instance, and the provider setup of the       *)
(* server's handlers.                                                      *)
(***************************************************************************)

\* fetchModels up to its first await: the credential check, then the fetch.
startModels(p, cred) ==
  IF Falsy(cred) THEN [pc |-> "done", outcome |-> Rejected(missingCredential(p))]
  ELSE [pc |-> "fetch", outcome |-> Pending]

\* What the handler of /api/models sends when fetchModels has settled.
modelsResponse(out) ==
  IF out.kind = "resolved" THEN JsonModels(out.value)
  ELSE JsonError(500, messageOf(out.error))

\* fetchModels settles; the handler of /api/models, if any, answers.
ModelsSettle(out) ==
  /\ pc' = "done"
  /\ outcome' = out
  /\ res' = IF request.endpoint = "models" THEN modelsResponse(out) ELSE res

\* The caller invokes fetchModels on a provider instance.
FetchModels ==
  /\ request.endpoint = "none"
  /\ pc = "idle"
  /\ op' = "models"
  /\ pc' = startModels(provider, credential).pc
  /\ outcome' = startModels(provider, credential).outcome
  /\ UNCHANGED <<provider, config, script, limit, stage, requests, results, reducerVars,
                 modelsVars, streamsVars, serverVars>>

\* fetch rejects: no HTTP response.
ModelsFetchRejects ==
  /\ op = "models"
  /\ pc = "fetch"
  /\ script.first = "neterr"
  /\ ModelsSettle(Rejected(NetworkError))
  /\ UNCHANGED <<provider, config, script, limit, op, stage, requests, results,
                 reducerVars, modelsVars, streamsVars, request, env>>

\* fetch resolves with a response that is not ok.
ModelsFetchNotOk ==
  /\ op = "models"
  /\ pc = "fetch"
  /\ script.first # "neterr"
  /\ ~ResponseOf(script.first).ok
  /\ ModelsSettle(Rejected(modelsError(ResponseOf(script.first))))
  /\ UNCHANGED <<provider, config, script, limit, op, stage, requests, results,
                 reducerVars, modelsVars, streamsVars, request, env>>

\* fetch resolves with an ok response: await resp.json().
ModelsFetchOk ==
  /\ op = "models"
  /\ pc = "fetch"
  /\ script.first # "neterr"
  /\ ResponseOf(script.first).ok
  /\ pc' = "json"
  /\ UNCHANGED <<provider, config, script, limit, op, stage, requests, outcome, results,
                 reducerVars, modelsVars, streamsVars, serverVars>>

\* resp.json() settles: the list is mapped and returned, or the SyntaxError
\* thrown.
ModelsJsonParsed ==
  /\ op = "models"
  /\ pc = "json"
  /\ IF script.first = "ok"
     THEN ModelsSettle(Resolved(mapModels(provider, wireModels(provider, catalog))))
     ELSE ModelsSettle(Rejected(SyntaxError))
  /\ UNCHANGED <<provider, config, script, limit, op, stage, requests, results,
                 reducerVars, modelsVars, streamsVars, request, env>>

\* A provider instance built by a caller of the library, with or without a
\* credential, against a backend that lists some models.
InitModels ==
  /\ provider \in Providers
  /\ config \in {c \in Configs : c.think = "false" /\ c.stream /\ Len(c.messages) = 1}
  /\ script \in [first : ReplyKinds, second : {"ok"}]
  /\ limit = MaxCallBytes
  /\ op = "none"
  /\ pc = "idle"
  /\ stage = "plain"
  /\ requests = <<>>
  /\ outcome = Pending
  /\ results = [o \in Ops |-> NoResult]
  /\ rpc = "off"
  /\ red = ReducerStart
  /\ exit = ""
  /\ sent = <<>>
  /\ cut = "none"
  /\ credential \in {"absent", "", "k"}
  /\ catalog \in SeqsUpTo({"a", "b"}, MaxModels)
  /\ request = NoRequest
  /\ env = NoEnv
  /\ res = NoResponse
  /\ other = NoCall
  /\ faults = NoFaults

NextModels ==
  \/ FetchModels
  \/ ModelsFetchRejects
  \/ ModelsFetchNotOk
  \/ ModelsFetchOk
  \/ ModelsJsonParsed

SpecModels == InitModels /\ [][NextModels]_vars

\* POST /api/models: the provider setup, then fetchModels up to its fetch.
ModelsRequest ==
  /\ request.endpoint = "models"
  /\ pc = "idle"
  /\ LET made == createProvider(request.providerType, request.apiKey, request.modelUrl, env)
         start == startModels(made.provider, made.credential)
     IN  IF made.ok
         THEN /\ provider' = made.provider
              /\ credential' = made.credential
              /\ op' = "models"
              /\ pc' = start.pc
              /\ outcome' = start.outcome
              /\ res' = IF start.pc = "done" THEN modelsResponse(start.outcome) ELSE res
         ELSE /\ res' = JsonError(500, messageOf(made.error))
              /\ pc' = "done"
              /\ UNCHANGED <<provider, credential, op, outcome>>
  /\ UNCHANGED <<config, script, limit, stage, requests, results, reducerVars, catalog, streamsVars,
                 request, env>>

\* What becomes of a request whose async handler throws outside its try: the
\* framework leaves the rejection alone and the response open, or hands it
\* to its error handler, depending on the major version installed.
UnhandledRejections == {"left open", "error handler"}

\* POST /api/chat: the payload check and parse, the provider setup, the image
\* handling, then generateResponse or streamResponse up to its fetch.
ChatRequest ==
  /\ request.endpoint = "chat"
  /\ pc = "idle"
  /\ LET made == createProvider(request.providerType, request.apiKey, request.modelUrl, env)
         merged == [config EXCEPT !.messages = mergeImage(config.messages, request.file)]
         o == IF config.stream THEN "stream" ELSE "generate"
     IN  IF request.payload = "absent"
         THEN /\ res' = JsonError(400, <<"Missing payload">>)
              /\ pc' = "done"
              /\ UNCHANGED <<provider, config, credential, op, stage, requests>>
         ELSE IF request.payload = "invalid"
         THEN /\ \E fate \in UnhandledRejections :
                   /\ pc' = IF fate = "left open" THEN "crashed" ELSE "done"
                   /\ res' = IF fate = "left open" THEN res ELSE FrameworkError
              /\ UNCHANGED <<provider, config, credential, op, stage, requests>>
         ELSE IF made.ok
         THEN /\ provider' = made.provider
              /\ credential' = made.credential
              /\ op' = o
              /\ pc' = "fetch"
              /\ config' = callerAfter(merged, firstConfig(made.provider, o, merged))
              /\ stage' = IF firstThink(made.provider, merged) THEN "think" ELSE "plain"
              /\ requests' = <<buildPayload(made.provider,
                                            firstConfig(made.provider, o, merged))>>
              /\ res' = res
         ELSE /\ res' = JsonError(500, messageOf(made.error))
              /\ pc' = "done"
              /\ UNCHANGED <<provider, config, credential, op, stage, requests>>
  /\ UNCHANGED <<script, limit, outcome, results, reducerVars, catalog, streamsVars, request,
                 env>>

\* Credentials as a request or the environment may give them.
RequestCredentials == {"absent", "", "r"}
EnvCredentials == {"absent", "", "e"}

\* The requests a client may send to the two endpoints.
Requests ==
  [endpoint : {"models"}, payload : {"absent"},
   providerType : {"openai", "selfhosted", "claude"},
   apiKey : RequestCredentials, modelUrl : RequestCredentials, file : {NoFile}]
  \cup [endpoint : {"chat"}, payload : {"absent", "invalid", "valid"},
        providerType : {"openai", "selfhosted", "claude"},
        apiKey : RequestCredentials, modelUrl : RequestCredentials, file : {NoFile}]

\* The server before it handles a request.
InitServer ==
  /\ provider = "none"
  /\ config \in {c \in Configs : c.think = "false" /\ Len(c.messages) = 1}
  /\ script \in [first : {"ok", "other", "neterr"}, second : {"ok"}]
  /\ limit = MaxCallBytes
  /\ op = "none"
  /\ pc = "idle"
  /\ stage = "plain"
  /\ requests = <<>>
  /\ outcome = Pending
  /\ results = [o \in Ops |-> NoResult]
  /\ rpc = "off"
  /\ red = ReducerStart
  /\ exit = ""
  /\ sent = <<>>
  /\ cut = "none"
  /\ credential = ""
  /\ catalog = <<"a", "b">>
  /\ request \in Requests
  /\ env \in [OPENAI_API_KEY : EnvCredentials, MODEL_URL : EnvCredentials]
  /\ res = NoResponse
  /\ other = NoCall
  /\ faults = NoFaults

NextServer ==
  \/ ModelsRequest
  \/ ChatRequest
  \/ ModelsFetchRejects
  \/ ModelsFetchNotOk
  \/ ModelsFetchOk
  \/ ModelsJsonParsed

SpecServer == InitServer /\ [][NextServer]_vars

(***************************************************************************)
(* The handler of POST /api/chat to its end.                               *)
(***************************************************************************)

\* Bytes the body of a proxied stream yields.
MaxChatBytes == 3

\* The response once a step of the awaited operation has left it as r: when
\* the operation has settled, the handler goes on after its await.
ChatAnswers(r) ==
  res' = IF pc' = "done" THEN chatSettled(r, outcome', op = "stream") ELSE r

\* fetch rejects: no HTTP response of the backend.
ChatFetchRejects ==
  /\ request.endpoint = "chat"
  /\ pc = "fetch"
  /\ ReplyKind = "neterr"
  /\ Throw(NetworkError)
  /\ ChatAnswers(res)
  /\ UNCHANGED <<modelsVars, streamsVars, request, env, provider, script, limit, op,
                 reducerVars>>

\* fetch resolves with a response of the backend that is not ok.
ChatFetchNotOk ==
  /\ request.endpoint = "chat"
  /\ pc = "fetch"
  /\ ReplyKind # "neterr"
  /\ ~ResponseOf(ReplyKind).ok
  /\ Throw(sendError(provider, ResponseOf(ReplyKind)))
  /\ ChatAnswers(res)
  /\ UNCHANGED <<modelsVars, streamsVars, request, env, provider, script, limit, op,
                 reducerVars>>

\* fetch resolves with an ok response in bulk mode: await resp.json().
ChatFetchOkBulk ==
  /\ request.endpoint = "chat"
  /\ FetchOkBulk

\* resp.json() settles in bulk mode.
ChatJsonParsed ==
  /\ request.endpoint = "chat"
  /\ pc = "json"
  /\ LET data == bulkContent(ResponseOf(ReplyKind))
     IN  IF data.ok THEN Settle(Resolved(data.value), requests) /\ UNCHANGED <<stage, config>>
         ELSE Throw(SyntaxError)
  /\ ChatAnswers(res)
  /\ UNCHANGED <<modelsVars, streamsVars, request, env, provider, script, limit, op,
                 reducerVars>>

\* fetch resolves with an ok response in streaming mode.
ChatFetchOkStream ==
  /\ request.endpoint = "chat"
  /\ FetchOkStream

\* The callbacks a step of the reducer has invoked.
NewCalls == SubSeq(red'.calls, Len(red.calls) + 1, Len(red'.calls))

ChatStreamChunk ==
  /\ request.endpoint = "chat"
  /\ pc = "stream"
  /\ ReadChunk
  /\ StreamSettles
  /\ ChatAnswers(applyCallbacks(res, NewCalls, op = "stream"))
  /\ UNCHANGED <<modelsVars, streamsVars, request, env, provider, config, script, limit, op,
                 stage>>

ChatStreamEnd ==
  /\ request.endpoint = "chat"
  /\ pc = "stream"
  /\ BodyEnd
  /\ StreamSettles
  /\ ChatAnswers(applyCallbacks(res, NewCalls, op = "stream"))
  /\ UNCHANGED <<modelsVars, streamsVars, request, env, provider, config, script, limit, op,
                 stage>>

ChatStreamError ==
  /\ request.endpoint = "chat"
  /\ pc = "stream"
  /\ BodyError
  /\ StreamSettles
  /\ ChatAnswers(applyCallbacks(res, NewCalls, op = "stream"))
  /\ UNCHANGED <<modelsVars, streamsVars, request, env, provider, config, script, limit, op,
                 stage>>

\* Uploads: none, one without a declared type, one declared a JPEG.
SampleFiles == {NoFile, File("", <<77>>), File("image/jpeg", <<255, 0>>)}

\* Histories of plain messages: one user message, two of them around a
\* reply, a user message followed by a reply, and none of the user.
ChatHistories ==
  {<<PlainMessage("user", <<"h", "i">>)>>,
   <<PlainMessage("user", <<"a">>), PlainMessage("assistant", <<"o", "k">>),
     PlainMessage("user", <<"h", "i">>)>>,
   <<PlainMessage("user", <<"h", "i">>), PlainMessage("assistant", <<"o", "k">>)>>,
   <<PlainMessage("system", <<"b", "e">>), PlainMessage("assistant", <<"o", "k">>)>>}

\* The chat requests a client may send, with or without an upload.
ChatRequests ==
  [endpoint : {"chat"}, payload : {"absent", "invalid", "valid"},
   providerType : {"openai", "selfhosted", "claude"},
   apiKey : {"absent", "r"}, modelUrl : {"absent", "r"}, file : SampleFiles]

\* The server before it handles a chat request.
InitChat ==
  /\ provider = "none"
  /\ config \in [model : {"llama3"}, messages : ChatHistories, temperature : {7},
                 maxTokens : {256}, think : {"true", "false"}, stream : BOOLEAN]
  /\ script \in [first : {"ok", "okbad", "nothink", "other", "neterr"}, second : {"ok"}]
  /\ limit = MaxCallBytes
  /\ op = "none"
  /\ pc = "idle"
  /\ stage = "plain"
  /\ requests = <<>>
  /\ outcome = Pending
  /\ results = [o \in Ops |-> NoResult]
  /\ rpc = "off"
  /\ red = ReducerStart
  /\ exit = ""
  /\ sent = <<>>
  /\ cut = "none"
  /\ credential = ""
  /\ catalog = <<>>
  /\ request \in ChatRequests
  /\ env \in {NoEnv, [OPENAI_API_KEY |-> "e", MODEL_URL |-> ""]}
  /\ res = NoResponse
  /\ other = NoCall
  /\ faults = NoFaults

NextChat ==
  \/ ChatRequest
  \/ ChatFetchRejects
  \/ ChatFetchNotOk
  \/ ChatFetchOkBulk
  \/ ChatJsonParsed
  \/ ChatFetchOkStream
  \/ ChatStreamChunk
  \/ ChatStreamEnd
  \/ ChatStreamError

SpecChat == InitChat /\ [][NextChat]_vars

\* The server before it handles a well-formed chat request without an
\* upload, whose stream may be longer.
InitChatStream ==
  /\ provider = "none"
  /\ config \in [model : {"llama3"}, messages : {<<PlainMessage("user", <<"h", "i">>)>>},
                 temperature : {7}, maxTokens : {256}, think : {"false"}, stream : BOOLEAN]
  /\ script \in [first : {"ok", "other", "neterr"}, second : {"ok"}]
  /\ limit = MaxChatBytes
  /\ op = "none"
  /\ pc = "idle"
  /\ stage = "plain"
  /\ requests = <<>>
  /\ outcome = Pending
  /\ results = [o \in Ops |-> NoResult]
  /\ rpc = "off"
  /\ red = ReducerStart
  /\ exit = ""
  /\ sent = <<>>
  /\ cut = "none"
  /\ credential = ""
  /\ catalog = <<>>
  /\ request \in {r \in ChatRequests : /\ r.payload = "valid"
                                       /\ r.providerType \in Providers
                                       /\ r.apiKey = "r"
                                       /\ r.modelUrl = "r"
                                       /\ r.file = NoFile}
  /\ env = NoEnv
  /\ res = NoResponse
  /\ other = NoCall
  /\ faults = NoFaults

SpecChatStream == InitChatStream /\ [][NextChat]_vars

(***************************************************************************)
(* Properties of the stream reducer.                                       *)
(***************************************************************************)

CountDone(calls) == Cardinality({i \in 1..Len(calls) : calls[i].cb = "onDone"})

\* The lines of the stream the reducer has had to look at: the complete lines
\* of the text received, and the last, unterminated one once the body ended.
SourceLines ==
  LET segs == split(decode(FALSE, sent, <<>>).text, <<>>, <<>>)
  IN  IF exit = "normal" THEN segs ELSE SubSeq(segs, 1, Len(segs) - 1)

IsDoneLine(line) == trim(line) # <<>> /\ parseStreamLine(provider, trim(line)).isDone

\* Index of the first done line of ls, Len(ls) + 1 when there is none.
FirstDone(ls) ==
  LET ds == {i \in 1..Len(ls) : IsDoneLine(ls[i])}
  IN  IF ds = {} THEN Len(ls) + 1 ELSE CHOOSE i \in ds : \A j \in ds : i <= j

\* The increments one source line stands for, content before thinking.
IncrementsOfLine(line) ==
  LET t == trim(line)
      r == parseStreamLine(provider, t)
  IN  IF t = <<>> THEN <<>>
      ELSE (IF r.hasContent THEN <<Call("onContent", r.content)>> ELSE <<>>)
           \o (IF r.hasThinking THEN <<Call("onThinking", r.thinking)>> ELSE <<>>)

RECURSIVE IncrementsOf(_, _)
IncrementsOf(ls, n) ==
  IF n = 0 THEN <<>> ELSE IncrementsOf(ls, n - 1) \o IncrementsOfLine(ls[n])

Increments(calls) == SelectSeq(calls, LAMBDA c : c.cb # "onDone")

\* C1: onDone is invoked exactly once per _streamNDJSON call, whatever the
\* chunks: never before the call returns, and once when it has returned, on
\* the normal end of the body, on a done line and on a read error.
C1_OnDoneExactlyOnce ==
  /\ rpc = "read" => CountDone(red.calls) = 0
  /\ rpc = "returned" => /\ CountDone(red.calls) = 1
                         /\ exit \in {"normal", "sentinel", "error"}

\* The body failed after a complete content line and part of the next one.
C1_Witness ==
  /\ exit = "error"
  /\ red.leftover # <<>>
  /\ Len(red.calls) >= 2
  /\ red.calls[1].cb = "onContent"

\* C2: once a processed line parses as isDone, onDone is the last callback,
\* and the only increments delivered are those of the lines before that
\* line: nothing of the done line itself or of what follows it.
C2_NothingAfterDone ==
  LET ls == SourceLines
      k == FirstDone(ls)
  IN  /\ \A i \in 1..Len(red.calls) : red.calls[i].cb = "onDone" => i = Len(red.calls)
      /\ k <= Len(ls) =>
           /\ rpc = "returned"
           /\ red.calls = Append(IncrementsOf(ls, k - 1), Call("onDone", <<>>))

\* A done line that carries content, with a content line after it in the
\* same chunk: onDone is the only callback.
C2_Witness ==
  /\ provider = "selfhosted"
  /\ exit = "sentinel"
  /\ sent = <<"C", "F", "NL", "K">>
  /\ red.calls = <<Call("onDone", <<>>)>>

\* C3: the onContent/onThinking invocations are exactly the increments of
\* the source lines, in source order, up to the first done line: at every
\* point of the call, for the lines complete so far.
C3_SourceOrder ==
  LET ls == SourceLines
  IN  Increments(red.calls) = IncrementsOf(ls, FirstDone(ls) - 1)

\* Two lines with different increments, delivered from more than one chunk.
C3_Witness ==
  /\ cut = "line"
  /\ Len(red.calls) >= 3
  /\ red.calls[1] # red.calls[3]
  /\ red.calls[1].cb = "onContent"
  /\ red.calls[3].cb = "onContent"

\* _streamNDJSON over a body that yields `bytes` as one chunk and then ends
\* the way `ending` says.
OneChunk(p, bytes, ending) ==
  LET st == onChunk(p, ReducerStart, bytes)
  IN  IF st.returned THEN st
      ELSE IF ending = "normal" THEN onEnd(p, st)
      ELSE IF ending = "error" THEN onError(st)
      ELSE st

\* C4: chunk-boundary invariance: the callbacks invoked are those of the
\* same bytes arriving as a single chunk.
C4_ChunkInvariance ==
  red.calls = OneChunk(provider, sent, exit).calls

\* A content line whose multi-byte character was cut by a chunk boundary.
C4_Witness ==
  /\ cut = "char"
  /\ \E i \in 1..Len(red.calls) :
       /\ red.calls[i].cb = "onContent"
       /\ \E j \in 1..Len(red.calls[i].arg) : red.calls[i].arg[j] = "EA"

(***************************************************************************)
(* Properties of the retry on an unsupported think flag.                   *)
(***************************************************************************)

\* The error the operation sees when the backend answers a request with a
\* failure of the given kind.
ErrorOfReply(kind) ==
  IF kind = "neterr" THEN NetworkError ELSE sendError(provider, ResponseOf(kind))

\* The call in progress settles the way its last request was answered.
SettledAs(kind) ==
  /\ kind \in FailureKinds => outcome = Rejected(ErrorOfReply(kind))
  /\ kind = "ok" => outcome.kind = "resolved"
  /\ kind = "okbad" => outcome = IF op = "generate" THEN Rejected(SyntaxError)
                                 ELSE Resolved(<<>>)

\* C5: self-hosted, think true, first attempt failed with a body.error that
\* matches /does not support thinking/: exactly one more request is sent, equal
\* to the first but for think:false, and its outcome is the call's outcome.
C5_RetryWithoutThink ==
  (provider = "selfhosted" /\ config.think = "true" /\ script.first = "nothink"
   /\ pc = "done")
  => /\ Len(requests) = 2
     /\ requests[1].think = TRUE
     /\ requests[2] = [requests[1] EXCEPT !.think = FALSE]
     /\ requests[1].model = config.model
     /\ requests[1].stream = (op = "stream")
     /\ SettledAs(script.second)

\* A streamed think call, with an image in the history, that was refused
\* once and then served.
C5_Witness ==
  /\ provider = "selfhosted"
  /\ op = "stream"
  /\ config.think = "true"
  /\ Len(config.messages) = 2
  /\ script = [first |-> "nothink", second |-> "ok"]
  /\ pc = "done"
  /\ outcome.kind = "resolved"
  /\ Len(requests) = 2

\* The errors of a first attempt that do not match the pattern: another HTTP
\* error body, a network-level error, and the SyntaxError of resp.json().
UnmatchedFirstError ==
  \/ script.first \in {"other", "neterr"}
  \/ script.first = "okbad" /\ op = "generate"

\* C6: self-hosted, think true, first attempt failed with an error that does
\* not match: no second request, and the call rejects with that same error.
C6_OtherErrorPropagates ==
  (provider = "selfhosted" /\ config.think = "true" /\ op # "none"
   /\ UnmatchedFirstError)
  => /\ Len(requests) = 1
     /\ pc = "done" =>
          outcome = Rejected(IF script.first = "okbad" THEN SyntaxError
                             ELSE ErrorOfReply(script.first))

\* A think call rejected with the network error of its only request.
C6_Witness ==
  /\ provider = "selfhosted"
  /\ config.think = "true"
  /\ script.first = "neterr"
  /\ pc = "done"
  /\ outcome = Rejected(NetworkError)
  /\ Len(requests) = 1

\* C7: a call of the self-hosted provider sends at most two requests, and a
\* failure of the second one, of whatever kind, is the result of the call.
C7_SecondAttemptTerminal ==
  provider = "selfhosted"
  => /\ Len(requests) <= 2
     /\ (Len(requests) = 2 /\ script.second \in FailureKinds /\ pc # "fetch")
        => /\ pc = "done"
           /\ outcome = Rejected(ErrorOfReply(script.second))

\* The second, think:false request was refused with the unsupported-thinking
\* body as well.
C7_Witness ==
  /\ provider = "selfhosted"
  /\ script = [first |-> "nothink", second |-> "nothink"]
  /\ Len(requests) = 2
  /\ pc = "done"
  /\ outcome.kind = "rejected"
  /\ matches(errorMsg(outcome.error))

\* C8: self-hosted, think false or absent: one request, carrying think:false,
\* and a failure of it is the result of the call.
C8_NoThinkSingleRequest ==
  (provider = "selfhosted" /\ config.think \in {"false", "absent"} /\ op # "none")
  => /\ Len(requests) = 1
     /\ requests[1].think = FALSE
     /\ (script.first \in FailureKinds /\ pc # "fetch")
        => /\ pc = "done"
           /\ outcome = Rejected(ErrorOfReply(script.first))

\* A call without a think flag refused with the unsupported-thinking body.
C8_Witness ==
  /\ provider = "selfhosted"
  /\ config.think = "absent"
  /\ script.first = "nothink"
  /\ pc = "done"
  /\ outcome.kind = "rejected"
  /\ matches(errorMsg(outcome.error))
  /\ Len(requests) = 1

RECURSIVE ThinkFlags(_)
ThinkFlags(reqs) ==
  IF reqs = <<>> THEN <<>> ELSE <<Head(reqs).think>> \o ThinkFlags(Tail(reqs))

C10_CloudNeverRetries ==
  (provider = "openai" /\ op # "none")
  => /\ Len(requests) = 1
     /\ (script.first \in FailureKinds /\ pc # "fetch")
        => /\ pc = "done"
           /\ outcome = Rejected(ErrorOfReply(script.first))

\* A cloud call with think true refused with the unsupported-thinking body.
C10_Witness ==
  /\ provider = "openai"
  /\ config.think = "true"
  /\ script.first = "nothink"
  /\ pc = "done"
  /\ outcome.kind = "rejected"
  /\ outcome.error.hasStatus
  /\ Len(requests) = 1

(***************************************************************************)
(* Properties of the errors of the backend calls.                          *)
(***************************************************************************)

\* The text of the body of the first answer contains the phrase, whatever
\* the shape of the body.
FirstBodyMatchesTextually ==
  /\ script.first \in FailureKinds \ {"neterr"}
  /\ matches(ResponseOf(script.first).text)

\* C11: self-hosted, think true: every first-attempt HTTP failure whose body
\* textually matches the unsupported-thinking pattern, a parsed JSON object or
\* a raw non-JSON text, is followed by the think:false request.
C11_RetryOnAnyMatchingBody ==
  (provider = "selfhosted" /\ config.think = "true" /\ FirstBodyMatchesTextually
   /\ pc = "done")
  => /\ Len(requests) = 2
     /\ requests[2].think = FALSE

(***************************************************************************)
(* Properties of malformed lines and of the end of the body.               *)
(***************************************************************************)

\* A non-empty line whose JSON text does not parse.
Malformed(line) ==
  LET t == trim(line)
  IN  /\ t # <<>>
      /\ IF provider = "openai"
         THEN /\ startsWith(t, <<"P", "SP">>)
              /\ t # <<"P", "SP", "X">>
              /\ ~JSONparse(SubSeq(t, 3, Len(t))).ok
         ELSE ~JSONparse(t).ok

\* A line that is the done signal of the provider's wire format.
DoneSignal(line) ==
  LET t == trim(line)
  IN  IF provider = "openai" THEN t = <<"P", "SP", "X">>
      ELSE JSONparse(t).ok /\ JSONparse(t).done = "true"

\* C13: a malformed line parses to the empty increment and causes no
\* callback; the well-formed lines before and after it are delivered in
\* order; the call returns only on a done line, the end of the body or a
\* read error.
C13_MalformedLineSkipped ==
  LET ls == SourceLines
      dones == {i \in 1..Len(ls) : DoneSignal(ls[i])}
      k == IF dones = {} THEN Len(ls) + 1 ELSE CHOOSE i \in dones : \A j \in dones : i <= j
      kept == SelectSeq(SubSeq(ls, 1, k - 1), LAMBDA l : ~Malformed(l))
  IN  /\ \A i \in 1..Len(ls) :
           Malformed(ls[i]) => parseStreamLine(provider, trim(ls[i])) = NoIncrement
      /\ Increments(red.calls) = IncrementsOf(kept, Len(kept))
      /\ CountDone(red.calls) > 0 => (dones # {} \/ exit \in {"normal", "error"})
      /\ exit = "sentinel" => dones # {}
      /\ rpc = "read" => dones = {}

\* A malformed line, then a well-formed line that is delivered while the
\* reducer goes on reading.
C13_Witness ==
  /\ provider = "selfhosted"
  /\ sent = <<"E", "NL", "K", "NL">>
  /\ rpc = "read"
  /\ red.calls = <<Call("onContent", <<"x">>), Call("onThinking", <<"y">>)>>

\* C15: when the body ends, a non-empty trimmed leftover that is not a done
\* line is parsed once and its content and thinking are delivered before the
\* single onDone; an empty or whitespace-only leftover adds onDone alone.
C15_LeftoverFlushedOnce ==
  [][(rpc = "read" /\ rpc' = "returned" /\ exit' = "normal")
     => LET t == trim(red.leftover)
            r == IF provider = "openai" THEN OpenAI_parseStreamLine(t)
                 ELSE SelfHosted_parseStreamLine(t)
            flushed == IF t = <<>> \/ r.isDone THEN <<>>
                       ELSE (IF r.hasContent THEN <<Call("onContent", r.content)>> ELSE <<>>)
                            \o (IF r.hasThinking THEN <<Call("onThinking", r.thinking)>>
                                ELSE <<>>)
        IN  /\ red'.calls = red.calls \o flushed \o <<Call("onDone", <<>>)>>
            /\ t = <<>> => red'.calls = Append(red.calls, Call("onDone", <<>>))]_vars

\* The body ended after a complete line and an unterminated content line.
C15_Witness ==
  /\ provider = "selfhosted"
  /\ exit = "normal"
  /\ sent = <<"SP", "NL", "K">>
  /\ red.calls = <<Call("onContent", <<"x">>), Call("onThinking", <<"y">>),
                   Call("onDone", <<>>)>>

\* C14: when reading the body raises part-way through a stream, the
\* increments of the complete lines received have been delivered in order,
\* onDone has ended the callbacks, and streamResponse has resolved.
C14_BodyErrorEndsStreamQuietly ==
  (op = "stream" /\ exit = "error")
  => /\ Increments(red.calls) = IncrementsOf(SourceLines, Len(SourceLines))
     /\ red.calls # <<>>
     /\ red.calls[Len(red.calls)] = Call("onDone", <<>>)
     /\ CountDone(red.calls) = 1
     /\ pc = "done"
     /\ outcome.kind = "resolved"
     /\ results["stream"].kind = "resolved"

\* The body failed after one complete line and part of the next.
C14_Witness ==
  /\ op = "stream"
  /\ provider = "selfhosted"
  /\ exit = "error"
  /\ sent = <<"K", "NL", "C">>
  /\ red.calls = <<Call("onContent", <<"x">>), Call("onThinking", <<"y">>),
                   Call("onDone", <<>>)>>
  /\ outcome = Resolved(<<>>)

(***************************************************************************)
(* Properties of the message adapter of the self-hosted provider.          *)
(***************************************************************************)

\* The messages handed to the adapter and the messages of the payload built.
AdapterIn == config.messages
AdapterOut == requests[1].messages
Adapted == provider = "selfhosted" /\ requests # <<>>

HasImagesKey(m) == "images" \in DOMAIN m

\* C16: every message the adapter emits either has no images key or has an
\* images list with at least one entry.
C16_NoEmptyImageList ==
  Adapted => \A i \in 1..Len(AdapterOut) :
               HasImagesKey(AdapterOut[i]) => Len(AdapterOut[i].images) >= 1

\* A user message whose only image part has empty data was emitted without
\* images key.
C16_Witness ==
  /\ Adapted
  /\ AdapterIn = <<PartsMessage("user", <<TextPart(<<"h", "i">>), ImagePart(<<>>)>>)>>
  /\ AdapterOut = <<[role |-> "user", content |-> <<"h", "i">>]>>

\* A message without image parts: plain content, or a part list of other parts.
NoImageParts(m) ==
  ~m.isArray \/ \A j \in 1..Len(m.content) : m.content[j].type # "image_url"

\* The content of an emitted message is a part list.
OutIsArray(m) == "isArray" \in DOMAIN m /\ m.isArray

\* The emitted message is the input message.
SameMessage(in, out) ==
  /\ out.role = in.role
  /\ ~HasImagesKey(out)
  /\ OutIsArray(out) = in.isArray
  /\ out.content = in.content

TextParts(parts) == SelectSeq(parts, LAMBDA part : part.type = "text")
ImageParts(parts) == SelectSeq(parts, LAMBDA part : part.type = "image_url")

\* The texts of ts with one space between neighbours.
RECURSIVE JoinWithSpaces(_)
JoinWithSpaces(ts) ==
  IF ts = <<>> THEN <<>>
  ELSE IF Len(ts) = 1 THEN ts[1].text
  ELSE ts[1].text \o <<"SP">> \o JoinWithSpaces(Tail(ts))

JoinedText(parts) == trim(JoinWithSpaces(TextParts(parts)))

\* C17 as stated: every message without image parts is emitted as it came,
\* a user message with a list of text parts included.
C17_NoImagePartsUnchanged ==
  Adapted => \A i \in 1..Len(AdapterIn) :
               NoImageParts(AdapterIn[i]) => SameMessage(AdapterIn[i], AdapterOut[i])

\* C17: a message without image parts is emitted as it came when it is not a
\* user message or its content is a plain string; a user message whose
\* content is a list of text parts only is emitted as a message of role and
\* content alone, the content being the space-joined trimmed text.
C17_NoImagePartsFlattened ==
  Adapted => \A i \in 1..Len(AdapterIn) :
               NoImageParts(AdapterIn[i])
               => IF AdapterIn[i].role = "user" /\ AdapterIn[i].isArray
                  THEN /\ DOMAIN AdapterOut[i] = {"role", "content"}
                       /\ AdapterOut[i].role = "user"
                       /\ AdapterOut[i].content = JoinedText(AdapterIn[i].content)
                  ELSE SameMessage(AdapterIn[i], AdapterOut[i])

\* A user message with two text parts was emitted with its joined text.
C17_Witness ==
  /\ Adapted
  /\ AdapterIn = <<PartsMessage("user", <<TextPart(<<"h", "i">>),
                                          TextPart(<<"SP", "a", "SP">>)>>)>>
  /\ AdapterOut = <<[role |-> "user", content |-> <<"h", "i", "SP", "SP", "a">>]>>

\* The data of an image part without its "data:<mime>;base64," prefix.
StripPrefix(url) ==
  LET commas == {k \in 1..Len(url) : url[k] = ","}
  IN  IF commas = {} THEN url
      ELSE LET first == CHOOSE k \in commas : \A l \in commas : k <= l
           IN  [n \in 1..(Len(url) - first) |-> url[first + n]]

ImagesOf(m) == IF HasImagesKey(m) THEN m.images ELSE <<>>

\* The emitted content and images of a user message with a part list, the
\* images being those of the image parts ps.
AdaptedFrom(in, out, ps) ==
  /\ out.role = "user"
  /\ ~OutIsArray(out)
  /\ out.content = JoinedText(in.content)
  /\ ImagesOf(out) = [k \in 1..Len(ps) |-> StripPrefix(ps[k].image_url.url)]

\* C18 as stated: the content is the joined trimmed text and the image list
\* has one entry per image part, in order, without its prefix.
C18_OneEntryPerImagePart ==
  Adapted => \A i \in 1..Len(AdapterIn) :
               (AdapterIn[i].role = "user" /\ AdapterIn[i].isArray)
               => AdaptedFrom(AdapterIn[i], AdapterOut[i], ImageParts(AdapterIn[i].content))

\* C18: the content is the joined trimmed text and the image list has one
\* entry per image part whose data is not empty, in order, without its
\* prefix; an image part with empty data adds no entry.
C18_OneEntryPerNonEmptyImage ==
  Adapted => \A i \in 1..Len(AdapterIn) :
               (AdapterIn[i].role = "user" /\ AdapterIn[i].isArray)
               => AdaptedFrom(AdapterIn[i], AdapterOut[i],
                              SelectSeq(ImageParts(AdapterIn[i].content),
                                        LAMBDA part : part.image_url.url # <<>>))

\* After a system message, a user message with a text and a prefixed image.
C18_Witness ==
  /\ Adapted
  /\ Len(AdapterIn) = 2
  /\ AdapterIn[2] = PartsMessage("user",
                      <<TextPart(<<"h", "i">>),
                        ImagePart(<<"data:image/png;base64", ",", "Q", "k">>)>>)
  /\ AdapterOut[2] = [role |-> "user", content |-> <<"h", "i">>,
                      images |-> << <<"Q", "k">> >>]

\* C19: the output has as many messages as the input, with the same roles in
\* the same order, and a message that is not of the user or whose content is
\* a plain string is emitted as it came.
C19_ConversationShapeKept ==
  Adapted => /\ Len(AdapterOut) = Len(AdapterIn)
             /\ \A i \in 1..Len(AdapterIn) :
                  /\ AdapterOut[i].role = AdapterIn[i].role
                  /\ (AdapterIn[i].role # "user" \/ ~AdapterIn[i].isArray)
                     => SameMessage(AdapterIn[i], AdapterOut[i])

\* An assistant message with an image part, followed by a plain message.
C19_Witness ==
  /\ Adapted
  /\ Len(AdapterIn) = 2
  /\ AdapterIn[1] = PartsMessage("assistant", <<ImagePart(<<"Z", "g">>)>>)
  /\ AdapterOut[1] = AdapterIn[1]
  /\ AdapterOut[2] = PlainMessage("assistant", <<"o", "k", "SP">>)

(***************************************************************************)
(* Properties of fetchModels and of the provider setup.                    *)
(***************************************************************************)

\* fetchModels has settled after the backend answered its request.
ModelsAnswered == op = "models" /\ pc = "done" /\ ~Falsy(credential)

\* C12 as stated, for fetchModels: a response that is not ok surfaces as an
\* error that carries the HTTP status code and the response body, and a
\* failed fetch as an error without a status code.
C12_HttpErrorsCarryStatusAndBody ==
  ModelsAnswered
  => /\ (script.first # "neterr" /\ ~ResponseOf(script.first).ok)
        => /\ outcome.kind = "rejected"
           /\ outcome.error.hasStatus
           /\ outcome.error.status = ResponseOf(script.first).status
           /\ outcome.error.body \in {TextBody(ResponseOf(script.first).text),
                                      parseErrorBody(ResponseOf(script.first).text)}
     /\ script.first = "neterr"
        => /\ outcome.kind = "rejected"
           /\ ~outcome.error.hasStatus

\* C20: a non-empty credential of the request is the one the provider is
\* built with, whatever the environment holds; without one the environment's
\* value is used; with neither, the setup fails with a 500 whose error names
\* the missing credential, and no provider is built.
C20_CredentialResolution ==
  LET own == IF request.providerType = "openai" THEN request.apiKey ELSE request.modelUrl
      dflt == IF request.providerType = "openai" THEN env.OPENAI_API_KEY ELSE env.MODEL_URL
      named == IF request.providerType = "openai" THEN "OpenAI API key"
               ELSE "Self-Hosted model URL"
      setUp == /\ pc \notin {"idle", "crashed"}
               /\ request.endpoint = "models" \/ request.payload = "valid"
               /\ request.providerType \in Providers
  IN  setUp
      => IF own \notin {"absent", ""}
         THEN provider = request.providerType /\ credential = own
         ELSE IF dflt \notin {"absent", ""}
         THEN provider = request.providerType /\ credential = dflt
         ELSE /\ provider = "none"
              /\ res.sent
              /\ res.status = 500
              /\ \E k \in 1..Len(res.error) : res.error[k] = named
              /\ res.error[1] = "Missing"

\* A chat request with its own key was set up with it although the
\* environment holds another.
C20_Witness ==
  /\ request.endpoint = "chat"
  /\ request.providerType = "openai"
  /\ request.apiKey = "r"
  /\ env.OPENAI_API_KEY = "e"
  /\ pc = "fetch"
  /\ provider = "openai"
  /\ credential = "r"

(***************************************************************************)
(* Properties of the line parsers.                                         *)
(***************************************************************************)

\* The parser has been applied to the line.
Parsed == op = "parse" /\ pc = "done"

\* The line starts with the text "data: ".
HasDataPrefix(line) == Len(line) >= 2 /\ line[1] = "P" /\ line[2] = "SP"

\* C22: for every line that does not start with "data: " the parser of the
\* cloud API returns the empty increment, and the reducer invokes no callback
\* for a line whose trimmed text does not start with it.
C22_NoPrefixNoIncrement ==
  (Parsed /\ provider = "openai")
  => /\ ~HasDataPrefix(sent) => outcome.value = NoIncrement
     /\ ~HasDataPrefix(trim(sent)) => red.calls = <<>> /\ ~red.returned

\* A well-formed content document without the prefix in front of it.
C22_Witness ==
  /\ Parsed
  /\ provider = "openai"
  /\ sent = <<"G", "EA", "H">>
  /\ outcome.value = NoIncrement
  /\ red.calls = <<>>

\* The documents whose top-level done field is the boolean true.
TopLevelDoneTrue(line) ==
  LET t == trim(line)
  IN  \/ t = <<"D">>
      \/ /\ Len(t) >= 2
         /\ t[1] = "C"
         /\ t[Len(t)] = "F"
         /\ \A k \in 2..(Len(t) - 1) : t[k] \in {"SP", "EA", "FFFD"}

\* C23: the parser of the cloud API reports the end of the stream exactly
\* for the line "data: [DONE]", the parser of the self-hosted API exactly for
\* a JSON document whose top-level done field is the boolean true.
C23_DoneExactlyOnSignal ==
  Parsed
  => IF provider = "openai"
     THEN outcome.value.isDone <=> sent = <<"P", "SP", "X">>
     ELSE outcome.value.isDone <=> TopLevelDoneTrue(sent)

\* The self-hosted parser was given a done field that is the string "true".
C23_Witness ==
  /\ Parsed
  /\ provider = "selfhosted"
  /\ sent = <<"DS">>
  /\ ~outcome.value.isDone

(***************************************************************************)
(* Properties of the result of generateResponse.                           *)
(***************************************************************************)

\* The value is a string: it does not begin with the mark of another type.
IsString(v) == v = <<>> \/ v[1] # "#number"

\* C24 as stated: generateResponse of the self-hosted provider returns the
\* string message.content of a successful reply, the empty string when the
\* message or its content is absent, and never a value that is no string.
C24_BulkResultIsContentString ==
  (provider = "selfhosted" /\ op = "generate" /\ pc = "done" /\ outcome.kind = "resolved")
  => /\ IsString(outcome.value)
     /\ ReplyKind = "ok" => outcome.value = <<"hello">>
     /\ ReplyKind \in {"nobody", "nomessage", "nocontent", "emptycontent"}
        => outcome.value = <<>>

(***************************************************************************)
(* Properties of the caller's request object.                              *)
(***************************************************************************)

C25_CallsDoNotInterfere ==
  other.rpc # "off"
  => /\ red.calls = OneChunk(provider, sent, exit).calls
     /\ other.red.calls = OneChunk(other.provider, other.sent, other.exit).calls
     /\ rpc = "read" => red.leftover = onChunk(provider, ReducerStart, sent).leftover
     /\ other.rpc = "read"
        => other.red.leftover = onChunk(other.provider, ReducerStart, other.sent).leftover

\* The first call holds the beginning of a content line while the second,
\* on the same provider class, has received the end of one and finished
\* without a callback but onDone.
C25_Witness ==
  /\ provider = "selfhosted"
  /\ other.provider = "selfhosted"
  /\ rpc = "read"
  /\ red.leftover = <<"C">>
  /\ other.sent = <<"E">>
  /\ other.exit = "normal"
  /\ other.red.calls = <<Call("onDone", <<>>)>>

(***************************************************************************)
(* Properties of a stream whose callbacks raise.                           *)
(***************************************************************************)

\* The increments of every line received, the unterminated last one included.
AllIncrements ==
  LET segs == split(decode(FALSE, sent, <<>>).text, <<>>, <<>>)
  IN  IncrementsOf(segs, Len(segs))

\* C30: when the onContent or onThinking invocation that raises has been
\* made, it is the last one: the callbacks invoked are the increments of the
\* stream up to it, in order, followed by exactly one onDone, and
\* streamResponse has resolved instead of passing the error on.
C30_RaisingCallbackStopsReducer ==
  /\ faults.at > 0 => Len(Increments(red.calls)) <= faults.at
  /\ exit = "raised"
     => /\ Len(Increments(red.calls)) = faults.at
        /\ Increments(red.calls) = SubSeq(AllIncrements, 1, faults.at)
        /\ red.calls = Append(Increments(red.calls), Call("onDone", <<>>))
        /\ rpc = "returned"
        /\ pc = "done"
        /\ outcome = Resolved(<<>>)
        /\ results["stream"].kind = "resolved"

\* onContent raised on the first of two lines: the thinking of that line and
\* the second line were never delivered.
C30_Witness ==
  /\ op = "stream"
  /\ provider = "selfhosted"
  /\ faults.at = 1
  /\ exit = "raised"
  /\ sent = <<"K", "NL", "K">>
  /\ red.calls = <<Call("onContent", <<"x">>), Call("onDone", <<>>)>>
  /\ outcome = Resolved(<<>>)

(***************************************************************************)
(* Properties of the handler of POST /api/chat.                            *)
(***************************************************************************)

\* A parsed chat request whose provider type is unknown or whose credential
\* is missing from the request and from the environment.
UnknownProviderType ==
  /\ request.endpoint = "chat"
  /\ request.payload = "valid"
  /\ request.providerType \notin {"openai", "selfhosted"}

MissingCredential ==
  /\ request.endpoint = "chat"
  /\ request.payload = "valid"
  /\ \/ /\ request.providerType = "openai"
        /\ Falsy(request.apiKey)
        /\ Falsy(env.OPENAI_API_KEY)
     \/ /\ request.providerType = "selfhosted"
        /\ Falsy(request.modelUrl)
        /\ Falsy(env.MODEL_URL)

\* C21: a chat request with an unknown provider type or without a credential
\* sends no request to a backend, at any time, and is answered in one step
\* by one 500 JSON error that names the provider type or the credential
\* missing.
C21_ConfigErrorsSurfaceAtOnce ==
  (UnknownProviderType \/ MissingCredential)
  => /\ requests = <<>>
     /\ pc \in {"idle", "done"}
     /\ op = "none"
     /\ pc = "idle" => res = NoResponse
     /\ pc = "done"
        => /\ res.sent /\ res.status = 500 /\ res.kind = "json" /\ res.ended = 1
           /\ UnknownProviderType
              => res.error = <<"Unknown provider type:", request.providerType>>
           /\ (MissingCredential /\ request.providerType = "openai")
              => res.error = <<"Missing", "OpenAI API key", "on server.">>
           /\ (MissingCredential /\ request.providerType = "selfhosted")
              => res.error = <<"Missing", "Self-Hosted model URL", "on server.">>

\* A streaming request to the self-hosted backend with an upload but without
\* a model URL has been answered.
C21_Witness ==
  /\ MissingCredential
  /\ request.providerType = "selfhosted"
  /\ request.file.present
  /\ config.stream
  /\ pc = "done"
  /\ res = JsonError(500, <<"Missing", "Self-Hosted model URL", "on server.">>)
  /\ requests = <<>>

\* The message at place i is the last one of the user.
IsLastUserMessage(messages, i) ==
  /\ messages[i].role = "user"
  /\ \A j \in (i + 1)..Len(messages) : messages[j].role # "user"

\* The data URL of an upload: its declared type, image/png when it declares
\* none, and its bytes in base64.
DataUrlOf(file) ==
  <<"data:", IF file.mimetype = "" THEN "image/png" ELSE file.mimetype, ";base64", ",">>
  \o toBase64(file.buffer)

\* C27: the step that handles a chat request with an upload and goes on to
\* the provider replaces the content of the last user message by its text
\* as a text part followed by the image as an image part, and leaves every
\* other message as it was; without a user message it leaves all of them,
\* and a request is sent to the backend all the same.  No other step changes
\* a message.
C27_ImageMergedIntoLastUserMessage ==
  [][ LET old == config.messages
          new == config'.messages
      IN  IF request.endpoint = "chat" /\ pc = "idle" /\ pc' = "fetch" /\ request.file.present
          THEN /\ Len(requests') = 1
               /\ Len(new) = Len(old)
               /\ \A i \in 1..Len(old) :
                    IF IsLastUserMessage(old, i)
                    THEN /\ new[i].role = "user"
                         /\ new[i].content
                              = <<[type |-> "text", text |-> old[i].content],
                                  [type |-> "image_url",
                                   image_url |-> [url |-> DataUrlOf(request.file)]]>>
                    ELSE new[i] = old[i]
          ELSE new = old ]_vars

\* An upload that declares no type was merged into the second of two user
\* messages.
C27_Witness ==
  /\ request.endpoint = "chat"
  /\ request.file = File("", <<77>>)
  /\ pc = "fetch"
  /\ Len(config.messages) = 3
  /\ config.messages[1] = PlainMessage("user", <<"a">>)
  /\ config.messages[2] = PlainMessage("assistant", <<"o", "k">>)
  /\ config.messages[3].content
       = <<TextPart(<<"h", "i">>),
           ImagePart(<<"data:", "image/png", ";base64", ",", "T", "Q", "=", "=">>)>>

\* The arguments of the onContent invocations among calls, in order.
ContentChunks(calls) ==
  LET cs == SelectSeq(calls, LAMBDA c : c.cb = "onContent")
  IN  [i \in 1..Len(cs) |-> cs[i].arg]

\* C26: once the stream of a streaming chat request has started, the chunks
\* written to the response are the contents onContent was invoked with, in
\* order; no chunk is written after the response was ended; the response is
\* ended as often as onDone was invoked, which is never while the reducer
\* reads and exactly once when it has returned, on a done line, on the end
\* of the body and on a read error alike.
C26_StreamWrittenThenEndedOnce ==
  (request.endpoint = "chat" /\ op = "stream" /\ rpc # "off")
  => /\ res.writes = ContentChunks(red.calls)
     /\ res.late = 0
     /\ res.ended = CountDone(red.calls)
     /\ rpc = "read" => res.ended = 0
     /\ rpc = "returned" => res.ended = 1 /\ pc = "done"

\* The backend failed after a complete line and a part of the next: the
\* content of the line was written and the response then ended.
C26_Witness ==
  /\ request.endpoint = "chat"
  /\ op = "stream"
  /\ provider = "selfhosted"
  /\ sent = <<"K", "NL", "C">>
  /\ exit = "error"
  /\ res.writes = << <<"x">> >>
  /\ res.ended = 1
  /\ res.status = 200

\* The handler of a chat request has run to its end: every await of it has
\* settled and no statement of it is left to run.
ChatHandlerReturned == request.endpoint = "chat" /\ pc \in {"done", "crashed"}

\* The response is complete with a JSON body or as an ended stream.
ResponseCompleted == res.ended = 1 /\ res.kind \in {"json", "stream"}

\* C29: when the handler of a chat request has run to its end, the response
\* has been completed, by a JSON result, a JSON error or the end of the
\* stream, whatever the payload, the configuration and the backend did.
C29_EveryChatRequestAnswered ==
  ChatHandlerReturned => ResponseCompleted

\* C31: onDone is invoked at most once per reducer call, also when the
\* onDone invoked inside the try block raises or the logging that follows
\* it does.
C31_OnDoneAtMostOnce ==
  CountDone(red.calls) <= 1

(***************************************************************************)
(* Properties of the operations as a whole.                                *)
(***************************************************************************)

\* C32: a streamResponse call whose callbacks do not raise has invoked no
\* callback while a request of it, the first or the retry, is unanswered;
\* when it has finished it has either resolved, with exactly one onDone as
\* its last callback, or rejected without having read a stream and without
\* any callback.
C32_ResolvedWithOnDoneOrRejectedSilently ==
  op = "stream"
  => /\ pc = "fetch" => red.calls = <<>> /\ rpc = "off"
     /\ pc = "done"
        => \/ /\ outcome.kind = "resolved"
              /\ rpc = "returned"
              /\ CountDone(red.calls) = 1
              /\ red.calls[Len(red.calls)].cb = "onDone"
           \/ /\ outcome.kind = "rejected"
              /\ rpc = "off"
              /\ red.calls = <<>>

\* A think call whose first attempt was refused without a callback and whose
\* retry streamed one line and ended.
C32_Witness ==
  /\ op = "stream"
  /\ provider = "selfhosted"
  /\ script.first = "nothink"
  /\ Len(requests) = 2
  /\ pc = "done"
  /\ outcome.kind = "resolved"
  /\ sent = <<"K">>
  /\ red.calls = <<Call("onContent", <<"x">>), Call("onThinking", <<"y">>),
                   Call("onDone", <<>>)>>

\* Every request of reqs carries the stream flag of operation o.
StreamFlagOf(o, reqs) == \A i \in 1..Len(reqs) : reqs[i].stream = (o = "stream")

\* C33: every request sent to the backend by generateResponse carries
\* stream:false and every one sent by streamResponse stream:true, the first
\* and the retry without thinking alike, for both providers and whatever the
\* stream field of the caller's request says.
C33_OperationDecidesStreamFlag ==
  /\ op \in Ops => StreamFlagOf(op, requests)
  /\ \A o \in Ops : StreamFlagOf(o, results[o].requests)

\* A caller that asked for a stream in its request called generateResponse,
\* and one that asked for none called streamResponse; both were retried.
C33_Witness ==
  /\ provider = "selfhosted"
  /\ Len(requests) = 2
  /\ \/ op = "generate" /\ config.stream
     \/ op = "stream" /\ ~config.stream
  /\ results["generate"].kind # "none"
  /\ results["stream"].kind # "none"
  /\ Len(results["generate"].requests) = 2
  /\ Len(results["stream"].requests) = 2

====
